---- MODULE Spec2Model ----
(***************************************************************************)
(* Model of the contest evaluation pipeline of msolomos/strategy-contest:  *)
(* the orchestrator (contest_evaluation_orchestrator.py) in its automated  *)
(* and its interactive mode, the command-line entry points of the four     *)
(* stage tools and their scorers, the metric extraction and the checks of  *)
(* the contest rules verifier, and the security scan of a Python file.     *)
(*                                                                         *)
(* Submission ids are directory names; they are modelled as sequences of   *)
(* one-character strings so that the ",".join / split(',') / strip() round *)
(* trip between the orchestrator and a stage tool is computed, not assumed.*)
(* Scores are integer valued in every stage tool (all deductions and       *)
(* bonuses are whole numbers); the weighted overall score is kept scaled   *)
(* by 100 so that the weights 0.30/0.25/0.25/0.20 are the integers         *)
(* 30/25/25/20.                                                            *)
(***************************************************************************)
EXTENDS Integers, Sequences, FiniteSets, TLC

VARIABLES
    dirs,           \* names of the directories found under base_path
    pc,             \* position of run_full_evaluation
    survivors,      \* the survivor list returned by the last stage that ran
    stage_results,  \* self.stage_results: stage -> (submission id -> result)
    final_results,  \* self.final_results: list of SubmissionResult
    handed,         \* stage -> the survivor list passed into that stage
    returned,       \* stage -> the survivor list that stage returned
    evaluated,      \* stage -> ids for which the stage tool ran check_submission
    outcome,        \* stage -> how the tool invocation ended
    rankCalls,      \* number of calls of generate_final_ranking
    answers,        \* interactive mode: prompt -> the branch its answer took
    sc_issues,      \* scorer harness: the issue list (severities) under test
    sc_metrics,     \* scorer harness: the extracted metrics under test
    sc_result,      \* scorer harness: the result of the scoring, if made
    rv_pc,          \* rules verifier: position of check_submission
    rv_entries,     \* rules verifier: the entries of the submission directory
    rv_row,         \* rules verifier: the combined row of the report text under test
    rv_files,       \* rules verifier: report files still to be read
    rv_csvs,        \* rules verifier: CSV files read so far
    rv_text,        \* rules verifier: metrics of extract_metrics_from_text
    rv_data,        \* rules verifier: backtest_data, then performance_metrics
    rv_violations,  \* rules verifier: the violations list
    rv_result,      \* rules verifier: the ContestRulesResult, once built
    sf_files,       \* security scan: the Python files written before
    sf_lines,       \* security scan: the lines of the Python file being written
    sf_result,      \* security scan: the SecurityAuditResult, once built
    st_positions,   \* strategy: self.positions, oldest first
    st_last_trade_time, \* strategy: self.last_trade_time (0 is None)
    st_call,        \* strategy: the arguments of the latest on_trade call
    bt_cash,        \* backtester: self.portfolio.cash
    bt_quantity,    \* backtester: self.portfolio.quantity
    bt_candle       \* backtester: candle_count of run

pipeVars == <<dirs, pc, survivors, stage_results, final_results,
              handed, returned, evaluated, outcome, rankCalls, answers>>
scVars   == <<sc_issues, sc_metrics, sc_result>>
rvVars   == <<rv_pc, rv_entries, rv_row, rv_files, rv_csvs, rv_text, rv_data, rv_violations, rv_result>>
vars     == <<dirs, pc, survivors, stage_results, final_results,
              handed, returned, evaluated, outcome, rankCalls, answers,
              sc_issues, sc_metrics, sc_result,
              rv_pc, rv_entries, rv_row, rv_files, rv_csvs, rv_text, rv_data,
              rv_violations, rv_result,
              sf_files, sf_lines, sf_result,
              st_positions, st_last_trade_time, st_call,
              bt_cash, bt_quantity, bt_candle>>
sfVars   == <<sf_files, sf_lines, sf_result>>
btVars   == <<st_positions, st_last_trade_time, st_call,
              bt_cash, bt_quantity, bt_candle>>

----------------------------------------------------------------------------
(* Bounds of the model *)

MaxDirs == 2        \* at most this many submission directories under base_path
MaxIssues == 4      \* longest issue list given to a scorer in the harness
MaxReports == 2     \* at most this many report files in a submission
MaxCsvs == 1        \* at most this many CSV files in a submission
MaxTermDirs == 1    \* directories of base_path in the runs checked for termination
MaxLines == 2       \* at most this many lines in the scanned Python files
MaxSize == 2        \* largest trade size, in whole units of the asset
MaxPrice == 2       \* largest close price, in whole units of cash
MaxDistance == 1    \* largest distance of a stop or target from the price
MaxTrades == 3      \* at most this many direct calls of on_trade
MaxCandles == 3     \* at most this many candles in a backtest
MaxCapital == 4     \* largest starting capital of a backtest

----------------------------------------------------------------------------
(* Strings: directory names and the --submissions argument *)

IdA  == <<"#", "a">>
IdB  == <<"#", "b">>
IdC  == <<"#", "c">>
IdAB == <<"#", "a", ",", "#", "b">>     \* a directory name containing a comma

Names == {IdA, IdB, IdC, IdAB}

BaseName == <<"b", "a", "s", "e">>      \* base_path.name

\* code points of the characters used, for Python's str comparison
Code(ch) ==
    CASE ch = " " -> 32
      [] ch = "#" -> 35
      [] ch = "," -> 44
      [] ch = "a" -> 97
      [] ch = "b" -> 98
      [] ch = "c" -> 99
      [] ch = "e" -> 101
      [] ch = "s" -> 115

RECURSIVE StrLess(_, _)
StrLess(s, t) ==
    IF t = <<>> THEN FALSE
    ELSE IF s = <<>> THEN TRUE
    ELSE IF Code(Head(s)) # Code(Head(t)) THEN Code(Head(s)) < Code(Head(t))
    ELSE StrLess(Tail(s), Tail(t))

RECURSIVE Join(_)
Join(list) ==
    IF list = <<>> THEN <<>>
    ELSE IF Len(list) = 1 THEN list[1]
    ELSE list[1] \o <<",">> \o Join(Tail(list))

\* str.split(','): always at least one field, "" splits into [""]
RECURSIVE SplitFrom(_, _)
SplitFrom(s, cur) ==
    IF s = <<>> THEN <<cur>>
    ELSE IF Head(s) = "," THEN <<cur>> \o SplitFrom(Tail(s), <<>>)
    ELSE SplitFrom(Tail(s), Append(cur, Head(s)))

Split(s) == SplitFrom(s, <<>>)

RECURSIVE LStrip(_)
LStrip(s) ==
    IF s # <<>> /\ Head(s) = " " THEN LStrip(Tail(s)) ELSE s

RECURSIVE RStrip(_)
RStrip(s) ==
    IF s # <<>> /\ s[Len(s)] = " " THEN RStrip(SubSeq(s, 1, Len(s) - 1)) ELSE s

Strip(s) == RStrip(LStrip(s))

\* (base_path / submission_id).exists(): joining "" gives base_path itself
PathExists(id, ds) == id = <<>> \/ id \in ds

\* submission_path.name
PathName(id) == IF id = <<>> THEN BaseName ELSE id

StartsWithHash(s) == s # <<>> /\ Head(s) = "#"

RECURSIVE SortedNames(_)
SortedNames(S) ==
    IF S = {} THEN <<>>
    ELSE LET m == CHOOSE x \in S : \A y \in S \ {x} : StrLess(x, y)
         IN  <<m>> \o SortedNames(S \ {m})

----------------------------------------------------------------------------
(* Issues, metrics and the four stage scorers *)

Severities == {"CRITICAL", "HIGH", "MEDIUM", "LOW"}

\* the metrics dict read by calculate_rules_score: a key is present only when
\* the extractor populated it; sharpe_ratio is kept in tenths
MetricKeys == {"total_return", "max_drawdown", "sharpe_ratio"}

NoMetrics == [k \in {} |-> 0]

\* sc_result and rv_result hold the result of a check, once one was made
NoResult == {}

MetricValues(k) ==
    CASE k = "total_return" -> {10, 11, 26}
      [] k = "max_drawdown" -> {5, 15, 55}
      [] k = "sharpe_ratio" -> {5, 15, 25}

MetricsSet ==
    UNION {{m \in [K -> {5, 10, 11, 15, 25, 26, 55}] : \A k \in K : m[k] \in MetricValues(k)} :
              K \in SUBSET MetricKeys}

EXCELLENT_RETURN == 25
GOOD_RETURN == 10

Max(a, b) == IF a >= b THEN a ELSE b
Min(a, b) == IF a <= b THEN a ELSE b

\* sum(1 for issue in issues if issue.severity == sev)
RECURSIVE CountSev(_, _)
CountSev(issues, sev) ==
    IF issues = <<>> THEN 0
    ELSE (IF Head(issues) = sev THEN 1 ELSE 0) + CountSev(Tail(issues), sev)

\* any(issue.severity == "CRITICAL" for issue in issues)
AnyCritical(issues) == \E i \in 1..Len(issues) : issues[i] = "CRITICAL"

\* variant of SecurityScore that takes the magnitude of the remaining points
SecurityScore_Magnitude(issues) ==
    LET rest == 100 - CountSev(issues, "CRITICAL") * 40
                    - CountSev(issues, "HIGH") * 15
                    - CountSev(issues, "MEDIUM") * 5
                    - CountSev(issues, "LOW") * 1
    IN  IF rest >= 0 THEN rest ELSE 0 - rest

\* SecurityAuditor.scan_submission: score from the four counts
SecurityScore(issues) ==
    Max(0, 100 - CountSev(issues, "CRITICAL") * 40
               - CountSev(issues, "HIGH") * 15
               - CountSev(issues, "MEDIUM") * 5
               - CountSev(issues, "LOW") * 1)

SecurityPassed(issues) ==
    CountSev(issues, "CRITICAL") = 0 /\ SecurityScore(issues) >= 60

\* StrictComplianceChecker._calculate_compliance_score: loop over the issues
RECURSIVE ComplianceDeduct(_, _)
ComplianceDeduct(issues, score) ==
    IF issues = <<>> THEN score
    ELSE ComplianceDeduct(Tail(issues),
            CASE Head(issues) = "CRITICAL" -> score - 25
              [] Head(issues) = "HIGH"     -> score - 10
              [] Head(issues) = "MEDIUM"   -> score - 5
              [] Head(issues) = "LOW"      -> score - 2
              [] OTHER                     -> score)

ComplianceScore(issues) == Max(0, ComplianceDeduct(issues, 100))

CompliancePassed(issues) ==
    ~AnyCritical(issues) /\ ComplianceScore(issues) >= 80

\* DataIntegrityChecker._calculate_integrity_score
RECURSIVE IntegrityDeduct(_, _)
IntegrityDeduct(issues, score) ==
    IF issues = <<>> THEN score
    ELSE IntegrityDeduct(Tail(issues),
            CASE Head(issues) = "CRITICAL" -> score - 30
              [] Head(issues) = "HIGH"     -> score - 15
              [] Head(issues) = "MEDIUM"   -> score - 8
              [] Head(issues) = "LOW"      -> score - 3
              [] OTHER                     -> score)

IntegrityScore(issues) == Max(0, IntegrityDeduct(issues, 100))

IntegrityPassed(issues) ==
    ~AnyCritical(issues) /\ IntegrityScore(issues) >= 70

\* ContestRulesVerifier.calculate_rules_score
RECURSIVE RulesDeduct(_, _)
RulesDeduct(violations, base_score) ==
    IF violations = <<>> THEN base_score
    ELSE RulesDeduct(Tail(violations),
            CASE Head(violations) = "CRITICAL" -> base_score - 30
              [] Head(violations) = "HIGH"     -> base_score - 15
              [] Head(violations) = "MEDIUM"   -> base_score - 8
              [] Head(violations) = "LOW"      -> base_score - 3
              [] OTHER                         -> base_score)

RulesBonus(metrics) ==
      (IF "total_return" \in DOMAIN metrics
       THEN IF metrics["total_return"] > EXCELLENT_RETURN THEN 10
            ELSE IF metrics["total_return"] > GOOD_RETURN THEN 5 ELSE 0
       ELSE 0)
    + (IF "max_drawdown" \in DOMAIN metrics
       THEN IF metrics["max_drawdown"] < 10 THEN 5
            ELSE IF metrics["max_drawdown"] < 20 THEN 2 ELSE 0
       ELSE 0)
    + (IF "sharpe_ratio" \in DOMAIN metrics
       THEN IF metrics["sharpe_ratio"] > 20 THEN 5
            ELSE IF metrics["sharpe_ratio"] > 10 THEN 2 ELSE 0
       ELSE 0)

\* variant of RulesScore that adds the bonus points without the cap of 100
RulesScore_BonusUncapped(violations, metrics) ==
    Max(0, RulesDeduct(violations, 100) + RulesBonus(metrics))

RulesScore(violations, metrics) ==
    Max(0, Min(100, RulesDeduct(violations, 100) + RulesBonus(metrics)))

\* variant of RulesPassed decided by the score and the HIGH tolerance alone
RulesPassed_ScoreOnly(violations, metrics) ==
    /\ RulesScore(violations, metrics) >= 70
    /\ CountSev(violations, "HIGH") <= 2

RulesPassed(violations, metrics) ==
    /\ RulesScore(violations, metrics) >= 70
    /\ CountSev(violations, "CRITICAL") = 0
    /\ CountSev(violations, "HIGH") <= 2

Stages == <<"security", "compliance", "data_integrity", "contest_rules">>
StageSet == {"security", "compliance", "data_integrity", "contest_rules"}

\* the result a stage tool builds for one submission directory
ToolScore(stage, issues, metrics) ==
    CASE stage = "security"       -> SecurityScore(issues)
      [] stage = "compliance"     -> ComplianceScore(issues)
      [] stage = "data_integrity" -> IntegrityScore(issues)
      [] stage = "contest_rules"  -> RulesScore(issues, metrics)

ToolPassed(stage, issues, metrics) ==
    CASE stage = "security"       -> SecurityPassed(issues)
      [] stage = "compliance"     -> CompliancePassed(issues)
      [] stage = "data_integrity" -> IntegrityPassed(issues)
      [] stage = "contest_rules"  -> RulesPassed(issues, metrics)

CheckSubmission(stage, id, issues, metrics) ==
    [submission_id |-> PathName(id),
     passed        |-> ToolPassed(stage, issues, metrics),
     score         |-> ToolScore(stage, issues, metrics),
     issues        |-> issues,
     metrics       |-> metrics]

----------------------------------------------------------------------------
(* The command-line entry points of the stage tools *)

\* the issue lists a stage tool may find for one directory in the pipeline
Profiles == {<<>>, <<"HIGH">>, <<"CRITICAL">>}

\* submission_ids = [s.strip() for s in args.submissions.split(',')]
RECURSIVE StripAll(_)
StripAll(list) ==
    IF list = <<>> THEN <<>> ELSE <<Strip(Head(list))>> \o StripAll(Tail(list))

SubmissionIds(arg) == StripAll(Split(arg))

\* the names of the paths main() finds and hands to check_submission
EvaluatedNames(arg, ds) ==
    {PathName(SubmissionIds(arg)[i]) :
        i \in {j \in 1..Len(SubmissionIds(arg)) : PathExists(SubmissionIds(arg)[j], ds)}}

\* main() of the compliance, data-integrity and contest-rules tools: one
\* result per id of --submissions whose path exists, the others are skipped
RECURSIVE ToolLoop(_, _, _, _)
ToolLoop(stage, ids, ds, prof) ==
    IF ids = <<>> THEN <<>>
    ELSE (IF PathExists(Head(ids), ds)
          THEN <<CheckSubmission(stage, Head(ids), prof[PathName(Head(ids))], NoMetrics)>>
          ELSE <<>>)
         \o ToolLoop(stage, Tail(ids), ds, prof)

ToolMain(stage, arg, ds, prof) == ToolLoop(stage, SubmissionIds(arg), ds, prof)

\* main() of the security tool: scans every directory whose name starts
\* with '#', in sorted order
SubmissionDirs(ds) == {d \in ds : StartsWithHash(d)}

RECURSIVE SecurityLoop(_, _)
SecurityLoop(list, prof) ==
    IF list = <<>> THEN <<>>
    ELSE <<CheckSubmission("security", Head(list), prof[Head(list)], NoMetrics)>>
         \o SecurityLoop(Tail(list), prof)

SecurityMain(ds, prof) == SecurityLoop(SortedNames(SubmissionDirs(ds)), prof)

----------------------------------------------------------------------------
(* The orchestrator *)

Outcomes == {"ok", "nonzero", "exception", "nofile"}

NotRun == "not_run"

EmptyResults == [x \in {} |-> [passed |-> FALSE, score |-> 0]]

\* the loop over the entries of a results file: record each entry under its
\* submission_id (a later entry for the same id overwrites) ...
RECURSIVE RecordEntries(_, _)
RecordEntries(entries, res) ==
    IF entries = <<>> THEN res
    ELSE RecordEntries(Tail(entries),
            (Head(entries).submission_id :>
                [passed |-> Head(entries).passed, score |-> Head(entries).score])
            @@ res)

\* ... and append the id to the new survivor list when the entry passed
RECURSIVE PassedIds(_)
PassedIds(entries) ==
    IF entries = <<>> THEN <<>>
    ELSE (IF Head(entries).passed THEN <<Head(entries).submission_id>> ELSE <<>>)
         \o PassedIds(Tail(entries))

\* the fallback loop of run_contest_rules_verification
RECURSIVE AssumePass(_, _, _)
AssumePass(list, score, res) ==
    IF list = <<>> THEN res
    ELSE AssumePass(Tail(list), score,
            (Head(list) :> [passed |-> TRUE, score |-> score]) @@ res)

SeqToSet(list) == {list[i] : i \in 1..Len(list)}

\* the prompts of run_interactive_evaluation and the state of a prompt that
\* was not reached
Prompts == StageSet \cup {"ranking"}
NotAsked == "not_asked"

\* the orchestrator after __init__
PipeFields ==
    /\ dirs \in {ds \in SUBSET Names : Cardinality(ds) <= MaxDirs}
    /\ survivors = <<>>
    /\ stage_results = [st \in StageSet |-> EmptyResults]
    /\ final_results = <<>>
    /\ handed = [st \in StageSet |-> <<>>]
    /\ returned = [st \in StageSet |-> <<>>]
    /\ evaluated = [st \in StageSet |-> {}]
    /\ outcome = [st \in StageSet |-> NotRun]
    /\ rankCalls = 0
    /\ answers = [p \in Prompts |-> NotAsked]

PipeInit ==
    /\ pc = "security"
    /\ PipeFields

\* what a stage leaves behind, common to the four run_* methods
StageDone(stage, input, oc, names, res, out, next) ==
    /\ handed' = [handed EXCEPT ![stage] = input]
    /\ outcome' = [outcome EXCEPT ![stage] = oc]
    /\ evaluated' = [evaluated EXCEPT ![stage] = names]
    /\ stage_results' = [stage_results EXCEPT ![stage] = res]
    /\ returned' = [returned EXCEPT ![stage] = out]
    /\ survivors' = out
    /\ pc' = next
    /\ UNCHANGED <<dirs, final_results, rankCalls>>

\* the position after a stage: interactive mode returns after stage 1 and
\* stage 2 when no survivor is left
NextPc_ReturnsEarly(out, some, none) == IF out # <<>> THEN some ELSE "halted"
NextPc(out, some, none) == IF out # <<>> THEN some ELSE none

\* the except / non-zero branch of run_security_audit
SecurityAuditFailed(oc, none) ==
    StageDone("security", SortedNames(SubmissionDirs(dirs)), oc, {},
              stage_results["security"], <<>>, none)

\* run_security_audit: any failure returns no survivor
SecurityAudit(some, none) ==
    \E oc \in Outcomes :
        \* the tool exits with status 1 when it finds no submission directory
        /\ (SubmissionDirs(dirs) = {} => oc \in {"nonzero", "exception"})
        /\ IF oc = "ok"
           THEN \E prof \in [SubmissionDirs(dirs) -> Profiles] :
                  LET entries == SecurityMain(dirs, prof)
                  IN  StageDone("security", SortedNames(SubmissionDirs(dirs)), oc,
                                SubmissionDirs(dirs),
                                RecordEntries(entries, stage_results["security"]),
                                PassedIds(entries),
                                NextPc(PassedIds(entries), some, none))
           ELSE SecurityAuditFailed(oc, none)

RunSecurityAudit ==
    /\ pc = "security"
    /\ SecurityAudit("compliance", "compliance")
    /\ UNCHANGED answers

\* run_compliance_check: any failure returns the survivors it was given
ComplianceCheckFailed(oc, some, none) ==
    StageDone("compliance", survivors, oc, {},
              stage_results["compliance"], survivors,
              NextPc(survivors, some, none))

ComplianceCheck(some, none) ==
    \E oc \in Outcomes :
        IF oc = "ok"
        THEN \E prof \in [EvaluatedNames(Join(survivors), dirs) -> Profiles] :
               LET entries == ToolMain("compliance", Join(survivors), dirs, prof)
               IN  StageDone("compliance", survivors, oc,
                             EvaluatedNames(Join(survivors), dirs),
                             RecordEntries(entries, stage_results["compliance"]),
                             PassedIds(entries),
                             NextPc(PassedIds(entries), some, none))
        ELSE ComplianceCheckFailed(oc, some, none)

RunComplianceCheck ==
    /\ pc = "compliance"
    /\ ComplianceCheck("data_integrity", "data_integrity")
    /\ UNCHANGED answers

\* the except / non-zero branch of run_data_integrity_check
DataIntegrityCheckFailed(oc, next) ==
    StageDone("data_integrity", survivors, oc, {},
              stage_results["data_integrity"], <<>>, next)

\* run_data_integrity_check: any failure returns no survivor
DataIntegrityCheck(next) ==
    \E oc \in Outcomes :
        IF oc = "ok"
        THEN \E prof \in [EvaluatedNames(Join(survivors), dirs) -> Profiles] :
               LET entries == ToolMain("data_integrity", Join(survivors), dirs, prof)
               IN  StageDone("data_integrity", survivors, oc,
                             EvaluatedNames(Join(survivors), dirs),
                             RecordEntries(entries, stage_results["data_integrity"]),
                             PassedIds(entries), next)
        ELSE DataIntegrityCheckFailed(oc, next)

RunDataIntegrityCheck ==
    /\ pc = "data_integrity"
    /\ DataIntegrityCheck("contest_rules")
    /\ UNCHANGED answers

DefaultRulesScore == 75

\* run_contest_rules_verification: any failure records an assumed pass with
\* score 75 for every survivor and returns the survivors it was given
ContestRulesVerificationFailed(oc, next) ==
    StageDone("contest_rules", survivors, oc, {},
              AssumePass(survivors, DefaultRulesScore,
                         stage_results["contest_rules"]),
              survivors, next)

ContestRulesVerification(next) ==
    \E oc \in Outcomes :
        IF oc = "ok"
        THEN \E prof \in [EvaluatedNames(Join(survivors), dirs) -> Profiles] :
               LET entries == ToolMain("contest_rules", Join(survivors), dirs, prof)
               IN  StageDone("contest_rules", survivors, oc,
                             EvaluatedNames(Join(survivors), dirs),
                             RecordEntries(entries, stage_results["contest_rules"]),
                             PassedIds(entries), next)
        ELSE ContestRulesVerificationFailed(oc, next)

RunContestRulesVerification ==
    /\ pc = "contest_rules"
    /\ ContestRulesVerification("ranking")
    /\ UNCHANGED answers

----------------------------------------------------------------------------
(* generate_final_ranking *)

\* the weights of the overall score, in hundredths
W_security == 30
W_compliance == 25
W_data_integrity == 25
W_contest_rules == 20

\* variant of MissingResult that takes an unevaluated stage as passed
MissingResult_AssumedPass == [passed |-> TRUE, score |-> 0]

\* self.stage_results[stage].get(submission_id, {'passed': False, 'score': 0})
MissingResult == [passed |-> FALSE, score |-> 0]

GetResult(res, stage, id) ==
    IF id \in DOMAIN res[stage] THEN res[stage][id] ELSE MissingResult

\* variant of AllSubmissions that ranks the ids of the last stage only
AllSubmissions_LastStageOnly(res) == DOMAIN res["contest_rules"]

\* the union of the keys of the four stage result dicts
AllSubmissions(res) == UNION {DOMAIN res[st] : st \in StageSet}

\* variant of OverallScore that averages the four scores with equal weights
OverallScore_EqualWeights(security, compliance, data_integrity, contest_rules) ==
    (security.score + compliance.score + data_integrity.score + contest_rules.score) * 25

OverallScore(security, compliance, data_integrity, contest_rules) ==
      security.score * W_security
    + compliance.score * W_compliance
    + data_integrity.score * W_data_integrity
    + contest_rules.score * W_contest_rules

\* variant of FinalStatus that leaves the contest-rules flag out
FinalStatus_WithoutRules(security, compliance, data_integrity, contest_rules) ==
    IF /\ security.passed
       /\ compliance.passed
       /\ data_integrity.passed
    THEN "PASS" ELSE "FAIL"

FinalStatus(security, compliance, data_integrity, contest_rules) ==
    IF /\ security.passed
       /\ compliance.passed
       /\ data_integrity.passed
       /\ contest_rules.passed
    THEN "PASS" ELSE "FAIL"

SubmissionResult(res, id) ==
    LET security       == GetResult(res, "security", id)
        compliance     == GetResult(res, "compliance", id)
        data_integrity == GetResult(res, "data_integrity", id)
        contest_rules  == GetResult(res, "contest_rules", id)
    IN  [submission_id         |-> id,
         security_passed       |-> security.passed,
         security_score        |-> security.score,
         compliance_passed     |-> compliance.passed,
         compliance_score      |-> compliance.score,
         data_integrity_passed |-> data_integrity.passed,
         data_integrity_score  |-> data_integrity.score,
         contest_rules_passed  |-> contest_rules.passed,
         contest_rules_score   |-> contest_rules.score,
         overall_score         |-> OverallScore(security, compliance,
                                                data_integrity, contest_rules),
         final_status          |-> FinalStatus(security, compliance,
                                               data_integrity, contest_rules)]

\* list.sort(key=lambda x: x.overall_score, reverse=True): stable, records
\* with equal keys keep the order they had
RECURSIVE InsertDesc(_, _)
InsertDesc(rec, sorted) ==
    IF sorted = <<>> THEN <<rec>>
    ELSE IF Head(sorted).overall_score >= rec.overall_score
         THEN <<Head(sorted)>> \o InsertDesc(rec, Tail(sorted))
         ELSE <<rec>> \o sorted

RECURSIVE SortDesc(_, _)
SortDesc(list, acc) ==
    IF list = <<>> THEN acc
    ELSE SortDesc(Tail(list), InsertDesc(Head(list), acc))

\* the orders in which a Python set of strings may be iterated (the order
\* depends on the per-process string hash seed)
IterationOrders(S) ==
    {f \in [1..Cardinality(S) -> S] : \A i, j \in 1..Cardinality(S) : f[i] = f[j] => i = j}

FinalRanking ==
    /\ \E order \in IterationOrders(AllSubmissions(stage_results)) :
          final_results' =
              SortDesc(final_results
                         \o [i \in 1..Len(order) |-> SubmissionResult(stage_results, order[i])],
                       <<>>)
    /\ rankCalls' = rankCalls + 1
    /\ pc' = "done"
    /\ UNCHANGED <<dirs, survivors, stage_results, handed, returned, evaluated, outcome>>

GenerateFinalRanking ==
    /\ pc = "ranking"
    /\ FinalRanking
    /\ UNCHANGED answers

----------------------------------------------------------------------------
(* run_interactive_evaluation: one prompt per stage *)

\* input(...).strip().lower(), for the answers a user may type
Responses == {"y", "yes", "s", "skip", "n", ""}
SkipAnswers == {"s", "skip"}
YesAnswers == {"y", "yes"}

\* the branch an answer takes at a prompt
Branch(response) ==
    IF response \in SkipAnswers THEN "skip"
    ELSE IF response \notin YesAnswers THEN "declined" ELSE "yes"

\* variant of SkipScore that assumes the same score in every stage
SkipScore_Uniform(stage) == 75

\* the score recorded for every survivor when a stage is skipped
SkipScore(stage) ==
    CASE stage = "security"       -> 90
      [] stage = "compliance"     -> 85
      [] stage = "data_integrity" -> 80
      [] stage = "contest_rules"  -> 75

\* variant of DeclinedPc that goes on with the next prompt
DeclinedPc_FallsThrough(next) == next

\* the position after an answer that is neither yes nor skip: the method
\* returns, whatever the next prompt would have been
DeclinedPc(next) == "halted"

Declined(next) ==
    /\ pc' = DeclinedPc(next)
    /\ UNCHANGED <<dirs, survivors, stage_results, final_results,
                   handed, returned, evaluated, outcome, rankCalls>>

\* a skipped stage: every submission of the list is recorded as passed
Skipped(stage, list, next) ==
    StageDone(stage, list, "skipped", {},
              AssumePass(list, SkipScore(stage), stage_results[stage]),
              list, next)

\* stage 1; a skip takes every directory of base_path as a survivor
AskSecurityAudit ==
    /\ pc = "ask_security"
    /\ \E response \in Responses :
        /\ answers' = [answers EXCEPT !["security"] = Branch(response)]
        /\ IF response \in SkipAnswers
           THEN \E submissions \in IterationOrders(dirs) :
                   Skipped("security", submissions,
                           NextPc(submissions, "ask_compliance", "halted"))
           ELSE IF response \notin YesAnswers
                THEN Declined("ask_compliance")
                ELSE SecurityAudit("ask_compliance", "halted")

AskComplianceCheck ==
    /\ pc = "ask_compliance"
    /\ \E response \in Responses :
        /\ answers' = [answers EXCEPT !["compliance"] = Branch(response)]
        /\ IF response \in SkipAnswers
           THEN Skipped("compliance", survivors,
                        NextPc(survivors, "ask_data_integrity", "halted"))
           ELSE IF response \notin YesAnswers
                THEN Declined("ask_data_integrity")
                ELSE ComplianceCheck("ask_data_integrity", "halted")

AskDataIntegrityCheck ==
    /\ pc = "ask_data_integrity"
    /\ \E response \in Responses :
        /\ answers' = [answers EXCEPT !["data_integrity"] = Branch(response)]
        /\ IF response \in SkipAnswers
           THEN Skipped("data_integrity", survivors, "ask_contest_rules")
           ELSE IF response \notin YesAnswers
                THEN Declined("ask_contest_rules")
                ELSE DataIntegrityCheck("ask_contest_rules")

AskContestRulesVerification ==
    /\ pc = "ask_contest_rules"
    /\ \E response \in Responses :
        /\ answers' = [answers EXCEPT !["contest_rules"] = Branch(response)]
        /\ IF response \in SkipAnswers
           THEN Skipped("contest_rules", survivors, "ask_ranking")
           ELSE IF response \notin YesAnswers
                THEN Declined("ask_ranking")
                ELSE ContestRulesVerification("ask_ranking")

\* stage 5: only yes generates the ranking; skip returns like any other answer
AskFinalRanking ==
    /\ pc = "ask_ranking"
    /\ \E response \in Responses :
        /\ answers' = [answers EXCEPT !["ranking"] = Branch(response)]
        /\ IF response \in YesAnswers
           THEN FinalRanking
           ELSE Declined("done")

----------------------------------------------------------------------------
(* ContestRulesVerifier.check_submission, step by step.                    *)
(* What a pattern or a table cell holds in a file is an input; what the    *)
(* verifier stores, overwrites, rejects and flags is computed.  Returns    *)
(* and drawdowns are whole percents, total_pnl is whole dollars, Sharpe    *)
(* ratios are in tenths.                                                   *)

MAX_DRAWDOWN == 50
MIN_TRADES == 10
STARTING_CAPITAL == 10000

Abs(x) == IF x >= 0 THEN x ELSE 0 - x

\* dict.update: the keys of e are set, the other keys of d are kept
Update(d, e) == e @@ d

Violation(sev, cat) == [severity |-> sev, category |-> cat]

\* [v.severity for v in violations]
SeverityList(violations) == [i \in 1..Len(violations) |-> violations[i].severity]

\* the values a report or a CSV file may hold for each figure
ReturnValues == {0, 26}
DrawdownCells == {0 - 5, 55}
SharpeValues == {15, 1120}
TradeValues == {5, 12}
WinRateValues == {60}

\* the cells of the combined row of a markdown table: column -> number; a
\* column that is empty or missing is not in the domain
TableColumns == {"return", "drawdown", "sharpe", "trades"}

TableCellValues(col) ==
    CASE col = "return"   -> ReturnValues
      [] col = "drawdown" -> DrawdownCells
      [] col = "sharpe"   -> SharpeValues
      [] col = "trades"   -> TradeValues

TableRows ==
    UNION {{row \in [K -> ReturnValues \cup DrawdownCells \cup SharpeValues \cup TradeValues] :
                \A col \in K : row[col] \in TableCellValues(col)} :
              K \in SUBSET TableColumns}

\* The text of a combined row is a sequence of tokens: "|", " ", "*", "%",
\* the word of the first cell and number literals.  The row has been set
\* in lower case by then (row = lines[j].lower()).
NumeralTenths ==
    ("0" :> 0) @@ ("26" :> 260) @@ ("-5" :> 0 - 50) @@ ("55" :> 550)
    @@ ("1.5" :> 15) @@ ("112" :> 1120) @@ ("5" :> 50) @@ ("12" :> 120)

\* float(str) succeeds on a single number literal; the value in tenths
IsFloatLiteral(str) == Len(str) = 1 /\ str[1] \in DOMAIN NumeralTenths
FloatTenths(str) == NumeralTenths[str[1]]

\* int(str) succeeds on a literal without a decimal point
IsIntLiteral(str) == IsFloatLiteral(str) /\ FloatTenths(str) % 10 = 0

\* the cell texts a row may hold in each column: blank, a number written
\* the usual way ('26%', '-5%', '1.5', '12'), a bold Sharpe ratio, and a
\* trade count that is not an integer
PercentCell(num) == <<" ", num, "%", " ">>
PlainCell(num) == <<" ", num, " ">>
BoldCell(num) == <<" ", "*", "*", num, "*", "*", " ">>
BlankCell == <<" ">>

ReturnNumerals == {"0", "26"}
DrawdownNumerals == {"-5", "55"}
SharpeNumerals == {"1.5", "112"}
TradeNumerals == {"5", "12"}

CellTexts(col) ==
    CASE col = "return"   -> {BlankCell} \cup {PercentCell(x) : x \in ReturnNumerals}
      [] col = "drawdown" -> {BlankCell} \cup {PercentCell(x) : x \in DrawdownNumerals}
      [] col = "sharpe"   -> {BlankCell, BoldCell("1.5")}
                                \cup {PlainCell(x) : x \in SharpeNumerals}
      [] col = "trades"   -> {BlankCell, PlainCell("1.5")}
                                \cup {PlainCell(x) : x \in TradeNumerals}

\* '| Combined | r | d | s | n |'
RowText(r, d, s, n) ==
    <<"|", " ", "combined", " ", "|">> \o r \o <<"|">> \o d \o <<"|">>
        \o s \o <<"|">> \o n \o <<"|">>

\* a row with a single figure, and a report without a table
ShortRow == <<"|", " ", "combined", " ", "|", " ", "26", "%", " ", "|">>
NoRow == <<>>

RowTexts ==
    {RowText(r, d, s, n) : r \in CellTexts("return"), d \in CellTexts("drawdown"),
                           s \in CellTexts("sharpe"), n \in CellTexts("trades")}
        \cup {ShortRow, NoRow}

\* row.split('|')
RECURSIVE SplitBarFrom(_, _)
SplitBarFrom(s, cur) ==
    IF s = <<>> THEN <<cur>>
    ELSE IF Head(s) = "|" THEN <<cur>> \o SplitBarFrom(Tail(s), <<>>)
    ELSE SplitBarFrom(Tail(s), Append(cur, Head(s)))

SplitBar(s) == SplitBarFrom(s, <<>>)

\* cell.strip(' |*')
RECURSIVE StripCell(_)
StripCell(s) ==
    IF s # <<>> /\ Head(s) \in {" ", "|", "*"} THEN StripCell(Tail(s))
    ELSE IF s # <<>> /\ s[Len(s)] \in {" ", "|", "*"}
         THEN StripCell(SubSeq(s, 1, Len(s) - 1))
         ELSE s

\* str.replace('%', '')
RECURSIVE RemovePercent(_)
RemovePercent(s) ==
    IF s = <<>> THEN <<>>
    ELSE (IF Head(s) = "%" THEN <<>> ELSE <<Head(s)>>) \o RemovePercent(Tail(s))

\* cells = [cell.strip(' |*') for cell in row.split('|')]
Cells(row) == [i \in 1..Len(SplitBar(row)) |-> StripCell(SplitBar(row)[i])]

\* The body of the try block: the figures of the cells, column -> number,
\* read in the order return, drawdown, Sharpe, trades; a cell that is not a
\* number raises ValueError, which ends the reading and keeps what was
\* stored before.  Returns and drawdowns are whole percents, the Sharpe
\* ratio is in tenths.
ParseCells(cells) ==
    IF Len(cells) < 5 THEN NoMetrics
    ELSE LET return_str == Strip(RemovePercent(cells[3]))
             dd_str     == Strip(RemovePercent(cells[4]))
             sharpe_str == Strip(cells[5])
             trades_str == IF Len(cells) >= 6 THEN Strip(cells[6]) ELSE <<>>
             ret    == IF return_str = <<>> THEN NoMetrics
                       ELSE "return" :> FloatTenths(return_str) \div 10
             dd     == IF dd_str = <<>> THEN NoMetrics
                       ELSE "drawdown" :> FloatTenths(dd_str) \div 10
             sharpe == IF sharpe_str = <<>> THEN NoMetrics
                       ELSE "sharpe" :> FloatTenths(sharpe_str)
             trades == IF trades_str = <<>> THEN NoMetrics
                       ELSE "trades" :> FloatTenths(trades_str) \div 10
         IN  IF return_str # <<>> /\ ~IsFloatLiteral(return_str) THEN NoMetrics
             ELSE IF dd_str # <<>> /\ ~IsFloatLiteral(dd_str) THEN ret
             ELSE IF sharpe_str # <<>> /\ ~IsFloatLiteral(sharpe_str) THEN ret @@ dd
             ELSE IF trades_str # <<>> /\ ~IsIntLiteral(trades_str)
                  THEN ret @@ dd @@ sharpe
                  ELSE ret @@ dd @@ sharpe @@ trades

\* the figures of the combined row of a report; the row is found from the
\* header line and also from itself, since it holds 'combined' and '|'
ParseTableRow(row) == IF row = NoRow THEN NoMetrics ELSE ParseCells(Cells(row))

\* extract_from_markdown_table: every cell found is stored as it is read
ExtractFromMarkdownTable(row) ==
       (IF "return" \in DOMAIN row
        THEN ("total_return" :> row["return"])
             @@ ("total_pnl" :> (row["return"] * STARTING_CAPITAL) \div 100)
        ELSE NoMetrics)
    @@ (IF "drawdown" \in DOMAIN row
        THEN ("max_drawdown" :> Abs(row["drawdown"])) ELSE NoMetrics)
    @@ (IF "sharpe" \in DOMAIN row
        THEN ("sharpe_ratio" :> row["sharpe"]) ELSE NoMetrics)
    @@ (IF "trades" \in DOMAIN row
        THEN ("total_trades" :> row["trades"]) ELSE NoMetrics)

\* the Sharpe range accepted by the patterns of extract_metrics_from_text
SharpeReasonable(x) == x >= 0 - 50 /\ x <= 100

\* extract_metrics_from_text, Sharpe part: the 'combined: a/b = **x**'
\* pattern first, the generic patterns only if the key is still missing;
\* combined and generic are the sets of matched numbers (empty: no match)
ExtractSharpe(metrics, combined, generic) ==
    LET m1 == IF \E x \in combined : SharpeReasonable(x)
              THEN Update(metrics, "sharpe_ratio" :> CHOOSE x \in combined : SharpeReasonable(x))
              ELSE metrics
    IN  IF "sharpe_ratio" \notin DOMAIN m1 /\ \E x \in generic : SharpeReasonable(x)
        THEN Update(m1, "sharpe_ratio" :> CHOOSE x \in generic : SharpeReasonable(x))
        ELSE m1

\* extract_metrics_from_text, the other patterns: found is the set holding
\* the number of the first pattern that matches (empty: no match)
PnlPatterns(metrics, found) ==
    IF found = {} THEN metrics
    ELSE LET value == CHOOSE x \in found : TRUE
         IN  Update(metrics, ("total_return" :> value)
                             @@ ("total_pnl" :> (value * STARTING_CAPITAL) \div 100))

DrawdownPatterns(metrics, found) ==
    IF found = {} THEN metrics
    ELSE Update(metrics, "max_drawdown" :> Abs(CHOOSE x \in found : TRUE))

TradePatterns(metrics, found) ==
    IF found = {} THEN metrics
    ELSE Update(metrics, "total_trades" :> CHOOSE x \in found : TRUE)

WinRatePatterns(metrics, found) ==
    IF found = {} THEN metrics
    ELSE Update(metrics, "win_rate" :> CHOOSE x \in found : TRUE)

\* no match, or a match with one of the given numbers
Matches(values) == {{}} \cup {{x} : x \in values}

\* extract_metrics_from_text on a report text with the given combined row
\* in which the patterns find the given numbers
ExtractMetricsFromText(row, pnl, dd, trades, combined, generic, win) ==
    WinRatePatterns(
        ExtractSharpe(
            TradePatterns(
                DrawdownPatterns(
                    PnlPatterns(
                        Update(NoMetrics, ExtractFromMarkdownTable(ParseTableRow(row))),
                        pnl),
                    dd),
                trades),
            combined, generic),
        win)

\* the value column of a CSV file: <<first value, last value, minimum of the
\* running drawdown in percent>>
CsvSeries == {<<10000, 10000, 0 - 5>>, <<10000, 12600, 0 - 5>>,
              <<5000, 6300, 0 - 55>>, <<0, 100, 0>>}

\* extract_metrics_from_csv: series is a set with the value column if there
\* is one, trades a set with the count of valid trades if there is a trade
\* column
ExtractMetricsFromCsv(series, trades) ==
       (IF \E v \in series : v[1] > 0
        THEN LET v == CHOOSE w \in series : w[1] > 0
             IN  ("total_return" :> ((v[2] - v[1]) * 100) \div v[1])
                 @@ ("total_pnl" :> v[2] - v[1])
                 @@ ("max_drawdown" :> Abs(v[3]))
        ELSE NoMetrics)
    @@ (IF trades # {} THEN ("total_trades" :> CHOOSE n \in trades : TRUE)
        ELSE NoMetrics)

\* validate_extracted_metrics
ValidateExtractedMetrics(metrics) ==
    IF {"total_pnl", "max_drawdown", "total_trades"} \subseteq DOMAIN metrics
    THEN <<>>
    ELSE <<Violation("HIGH", "Performance Metrics")>>

\* abs(abs(pnl / (ret / 100)) - STARTING_CAPITAL) > tolerance for ret # 0,
\* compared after multiplying both sides by abs(ret)
ImpliedCapitalOff(pnl, ret, tolerance) ==
    Abs(Abs(pnl) * 100 - STARTING_CAPITAL * Abs(ret)) > tolerance * Abs(ret)

\* check_contest_compliance, starting capital: a return of 0 gives an
\* implied capital of 0, which is then compared like any other
ComplianceCapital(metrics) ==
    IF "total_pnl" \in DOMAIN metrics
    THEN LET total_return == IF "total_return" \in DOMAIN metrics
                             THEN metrics["total_return"] ELSE 0
             off == IF total_return # 0
                    THEN ImpliedCapitalOff(metrics["total_pnl"], total_return, 1000)
                    ELSE Abs(0 - STARTING_CAPITAL) > 1000
         IN  IF off THEN <<Violation("MEDIUM", "Starting Capital")>> ELSE <<>>
    ELSE <<>>

\* check_asset_compliance
AssetCompliance(forbidden_found) ==
    IF forbidden_found THEN <<Violation("HIGH", "Asset Compliance")>> ELSE <<>>

\* variant of DrawdownViolations that rates the drawdown violation HIGH
DrawdownViolations_RatedHigh(metrics) ==
    IF "max_drawdown" \in DOMAIN metrics /\ metrics["max_drawdown"] >= MAX_DRAWDOWN
    THEN <<Violation("HIGH", "DISQUALIFICATION - Drawdown Violation")>>
    ELSE <<>>

\* validate_financial_constraints, maximum drawdown
DrawdownViolations(metrics) ==
    IF "max_drawdown" \in DOMAIN metrics /\ metrics["max_drawdown"] >= MAX_DRAWDOWN
    THEN <<Violation("CRITICAL", "DISQUALIFICATION - Drawdown Violation")>>
    ELSE <<>>

\* validate_financial_constraints, minimum trades
TradeViolations(metrics) ==
    IF "total_trades" \in DOMAIN metrics /\ metrics["total_trades"] < MIN_TRADES
    THEN <<Violation("CRITICAL", "DISQUALIFICATION - Insufficient Trading")>>
    ELSE <<>>

\* validate_financial_constraints, starting capital: skipped for a return of 0
CapitalViolations(metrics) ==
    IF /\ "total_pnl" \in DOMAIN metrics
       /\ "total_return" \in DOMAIN metrics
       /\ metrics["total_return"] # 0
       /\ ImpliedCapitalOff(metrics["total_pnl"], metrics["total_return"], 500)
    THEN <<Violation("CRITICAL", "Starting Capital Violation")>>
    ELSE <<>>

\* validate_financial_constraints, unrealistic performance
PerformanceViolations(metrics) ==
    IF "total_return" \in DOMAIN metrics
    THEN IF metrics["total_return"] > 1000
         THEN <<Violation("HIGH", "Unrealistic Performance")>>
         ELSE IF metrics["total_return"] < 0 - 90
              THEN <<Violation("MEDIUM", "Poor Performance")>>
              ELSE <<>>
    ELSE <<>>

\* validate_financial_constraints, Sharpe ratio reasonableness
SharpeViolations(metrics) ==
    IF "sharpe_ratio" \in DOMAIN metrics
    THEN IF metrics["sharpe_ratio"] > 100
         THEN <<Violation("MEDIUM", "Unrealistic Sharpe")>>
         ELSE IF metrics["sharpe_ratio"] < 0 - 20
              THEN <<Violation("LOW", "Poor Risk-Adjusted Return")>>
              ELSE <<>>
    ELSE <<>>

FinancialViolations(metrics) ==
    DrawdownViolations(metrics) \o TradeViolations(metrics)
        \o CapitalViolations(metrics) \o PerformanceViolations(metrics)
        \o SharpeViolations(metrics)

\* what validate_position_sizing may report for the strategy files
SizingFindings ==
    {<<>>, <<Violation("CRITICAL", "DISQUALIFICATION - Position Size Violation")>>}

\* what validate_data_compliance may report for the strategy files
DataFindings ==
    {<<>>,
     <<Violation("HIGH", "Missing Required Data Source")>>,
     <<Violation("CRITICAL", "DISQUALIFICATION - Forbidden Data Source")>>,
     <<Violation("HIGH", "Suspicious External Data Access"),
       Violation("HIGH", "Missing Required Data Source")>>,
     <<Violation("LOW", "Interval Verification Recommended")>>,
     <<Violation("MEDIUM", "Data Start Date Issue")>>}

\* what submission_path.iterdir() may yield: a directory whose name holds
\* 'strategy' in mixed case, a file whose name holds it, the reports folder
StrategyDir == [name |-> <<"M", "y", "-", "S", "t", "r", "a", "t", "e", "g", "y">>, is_dir |-> TRUE]
StrategyFile == [name |-> <<"s", "t", "r", "a", "t", "e", "g", "y", ".", "p", "y">>, is_dir |-> FALSE]
ReportsDir == [name |-> <<"r", "e", "p", "o", "r", "t", "s">>, is_dir |-> TRUE]
DirEntries == {StrategyDir, StrategyFile, ReportsDir}

\* str.lower() on the letters that occur in the names above
UpperCase == ("M" :> "m") @@ ("S" :> "s")
Lower(s) == [i \in 1..Len(s) |-> IF s[i] \in DOMAIN UpperCase THEN UpperCase[s[i]] ELSE s[i]]

\* sub in s
Contains(sub, s) ==
    \E i \in 1..(Len(s) - Len(sub) + 1) : SubSeq(s, i, i + Len(sub) - 1) = sub

\* variant of StrategyFolders that leaves the is_dir() test out
StrategyFolders_AnyEntry(entries) ==
    {d \in entries : Contains(<<"s", "t", "r", "a", "t", "e", "g", "y">>, Lower(d.name))}

\* [d for d in submission_path.iterdir()
\*    if d.is_dir() and 'strategy' in d.name.lower()]
StrategyFolders(entries) ==
    {d \in entries : d.is_dir /\ Contains(<<"s", "t", "r", "a", "t", "e", "g", "y">>, Lower(d.name))}

\* (submission_path / "reports").exists(); a reports folder deeper in the
\* tree, which the glob would also accept, is not among the entries
ReportsFound(entries) == \E d \in entries : d.name = <<"r", "e", "p", "o", "r", "t", "s">>

RvIdle ==
    /\ rv_pc = "idle"
    /\ rv_entries = {}
    /\ rv_row = <<>>
    /\ rv_files = 0
    /\ rv_csvs = 0
    /\ rv_text = NoMetrics
    /\ rv_data = NoMetrics
    /\ rv_violations = <<>>
    /\ rv_result = NoResult

RvInit ==
    /\ rv_pc = "folder"
    /\ rv_entries \in SUBSET DirEntries
    /\ rv_row = <<>>
    /\ rv_files = 0
    /\ rv_csvs = 0
    /\ rv_text = NoMetrics
    /\ rv_data = NoMetrics
    /\ rv_violations = <<>>
    /\ rv_result = NoResult

\* 1. check_folder_structure
CheckFolderStructure ==
    /\ rv_pc = "folder"
    /\ rv_violations' = rv_violations
          \o (IF StrategyFolders(rv_entries) # {} THEN <<>>
              ELSE <<Violation("CRITICAL", "Folder Structure")>>)
          \o (IF ReportsFound(rv_entries) THEN <<>>
              ELSE <<Violation("CRITICAL", "Folder Structure")>>)
    /\ rv_pc' = "report"
    /\ UNCHANGED <<rv_entries, rv_row, rv_files, rv_csvs, rv_text, rv_data, rv_result>>

\* 2. check_backtest_report: no report file is a HIGH violation
CheckBacktestReport ==
    /\ rv_pc = "report"
    /\ \E n \in 0..MaxReports :
          /\ rv_files' = n
          /\ IF n = 0
             THEN /\ rv_violations' = Append(rv_violations,
                                             Violation("HIGH", "Backtest Report"))
                  /\ rv_pc' = "csv"
             ELSE /\ rv_violations' = rv_violations
                  /\ rv_pc' = "table"
    /\ UNCHANGED <<rv_entries, rv_row, rv_csvs, rv_text, rv_data, rv_result>>

\* extract_metrics_from_text of the next report file: the table first
ExtractTable ==
    /\ rv_pc = "table"
    /\ \E row \in RowTexts :
          rv_text' = Update(NoMetrics, ExtractFromMarkdownTable(ParseTableRow(row)))
    /\ rv_pc' = "pnl"
    /\ UNCHANGED <<rv_entries, rv_row, rv_files, rv_csvs, rv_data, rv_violations, rv_result>>

\* the PnL/return patterns: each pattern holds 'return' or '%', so a match
\* is taken as a return in percent
ExtractPnl ==
    /\ rv_pc = "pnl"
    /\ \E found \in Matches(ReturnValues) : rv_text' = PnlPatterns(rv_text, found)
    /\ rv_pc' = "drawdown"
    /\ UNCHANGED <<rv_entries, rv_row, rv_files, rv_csvs, rv_data, rv_violations, rv_result>>

ExtractDrawdown ==
    /\ rv_pc = "drawdown"
    /\ \E found \in Matches(DrawdownCells) : rv_text' = DrawdownPatterns(rv_text, found)
    /\ rv_pc' = "trades"
    /\ UNCHANGED <<rv_entries, rv_row, rv_files, rv_csvs, rv_data, rv_violations, rv_result>>

ExtractTrades ==
    /\ rv_pc = "trades"
    /\ \E found \in Matches(TradeValues) : rv_text' = TradePatterns(rv_text, found)
    /\ rv_pc' = "sharpe"
    /\ UNCHANGED <<rv_entries, rv_row, rv_files, rv_csvs, rv_data, rv_violations, rv_result>>

ExtractSharpeRatio ==
    /\ rv_pc = "sharpe"
    /\ \E combined, generic \in Matches(SharpeValues) :
          rv_text' = ExtractSharpe(rv_text, combined, generic)
    /\ rv_pc' = "win_rate"
    /\ UNCHANGED <<rv_entries, rv_row, rv_files, rv_csvs, rv_data, rv_violations, rv_result>>

\* the win-rate patterns, the return of extract_metrics_from_text and
\* backtest_data.update(extracted_data) in check_backtest_report
ExtractWinRate ==
    /\ rv_pc = "win_rate"
    /\ \E found \in Matches(WinRateValues) :
          rv_data' = Update(rv_data, WinRatePatterns(rv_text, found))
    /\ rv_text' = NoMetrics
    /\ rv_files' = rv_files - 1
    /\ rv_pc' = IF rv_files > 1 THEN "table" ELSE "csv"
    /\ UNCHANGED <<rv_entries, rv_row, rv_csvs, rv_violations, rv_result>>

\* extract_metrics_from_text applied to one report text
ReadReportText ==
    /\ rv_pc = "text"
    /\ \E pnl \in Matches(ReturnValues), dd \in Matches(DrawdownCells),
          trades \in Matches(TradeValues), combined, generic \in Matches(SharpeValues),
          win \in Matches(WinRateValues) :
          rv_text' = ExtractMetricsFromText(rv_row, pnl, dd, trades, combined, generic, win)
    /\ rv_pc' = "text_done"
    /\ UNCHANGED <<rv_entries, rv_row, rv_files, rv_csvs, rv_data, rv_violations, rv_result>>

\* 3. extract_performance_metrics: one more CSV file is read
ReadCsvFile ==
    /\ rv_pc = "csv"
    /\ rv_csvs < MaxCsvs
    /\ \E series \in {{}} \cup {{v} : v \in CsvSeries},
          trades \in {{}} \cup {{n} : n \in TradeValues} :
          rv_data' = Update(rv_data, ExtractMetricsFromCsv(series, trades))
    /\ rv_csvs' = rv_csvs + 1
    /\ UNCHANGED <<rv_entries, rv_row, rv_pc, rv_files, rv_text, rv_violations, rv_result>>

\* 3. extract_performance_metrics: no CSV file is left, the metrics are
\* validated
ValidateMetrics ==
    /\ rv_pc = "csv"
    /\ rv_violations' = rv_violations \o ValidateExtractedMetrics(rv_data)
    /\ rv_pc' = "compliance"
    /\ UNCHANGED <<rv_entries, rv_row, rv_files, rv_csvs, rv_text, rv_data, rv_result>>

\* 4. check_contest_compliance
CheckContestCompliance ==
    /\ rv_pc = "compliance"
    /\ \E forbidden_found \in BOOLEAN :
          rv_violations' = rv_violations \o ComplianceCapital(rv_data)
                               \o AssetCompliance(forbidden_found)
    /\ rv_pc' = "financial"
    /\ UNCHANGED <<rv_entries, rv_row, rv_files, rv_csvs, rv_text, rv_data, rv_result>>

\* 5. validate_financial_constraints
ValidateFinancialConstraints ==
    /\ rv_pc = "financial"
    /\ rv_violations' = rv_violations \o FinancialViolations(rv_data)
    /\ rv_pc' = "sizing"
    /\ UNCHANGED <<rv_entries, rv_row, rv_files, rv_csvs, rv_text, rv_data, rv_result>>

\* 6. validate_position_sizing
ValidatePositionSizing ==
    /\ rv_pc = "sizing"
    /\ \E found \in SizingFindings : rv_violations' = rv_violations \o found
    /\ rv_pc' = "data"
    /\ UNCHANGED <<rv_entries, rv_row, rv_files, rv_csvs, rv_text, rv_data, rv_result>>

\* 7. validate_data_compliance, then the score, the pass test and the result
ValidateDataCompliance ==
    /\ rv_pc = "data"
    /\ \E found \in DataFindings :
          LET violations == rv_violations \o found
          IN  /\ rv_violations' = violations
              /\ rv_result' =
                    {[passed     |-> RulesPassed(SeverityList(violations), rv_data),
                      score      |-> RulesScore(SeverityList(violations), rv_data),
                      violations |-> violations,
                      metrics    |-> rv_data]}
    /\ rv_pc' = "done"
    /\ UNCHANGED <<rv_entries, rv_row, rv_files, rv_csvs, rv_text, rv_data>>

----------------------------------------------------------------------------
(* SecurityAuditor.scan_submission on the Python files of a submission.    *)
(* A line is a sequence of tokens; " " is white space and "#" starts a     *)
(* comment.                                                                *)

\* 'import mod'
ImportLine(mod) == <<"import", " ", mod>>

\* the module names that occur in import lines, letter by letter
ModuleSpelling ==
    ("requests" :> <<"r", "e", "q", "u", "e", "s", "t", "s">>)
    @@ ("tarfile" :> <<"t", "a", "r", "f", "i", "l", "e">>)
    @@ ("socket" :> <<"s", "o", "c", "k", "e", "t">>)
    @@ ("smart_strategy" :> <<"s", "m", "a", "r", "t", "_", "s", "t", "r", "a", "t", "e", "g", "y">>)
    @@ ("your_strategy" :> <<"y", "o", "u", "r", "_", "s", "t", "r", "a", "t", "e", "g", "y">>)
    @@ ("numpy" :> <<"n", "u", "m", "p", "y">>)

\* a line with a parenthesis that is never closed
UnclosedLine == <<"exec", "(", "user_input">>

SourceLines ==
    {<<"exec", "(", "user_input", ")">>,
     <<"exec", " ", "(", "user_input", ")">>,
     <<"#", "exec", "(", "user_input", ")">>,
     <<" ", "#", "eval", "(", "s", ")">>,
     <<"x", "=", "1">>,
     <<"x", "=", "1", "#", "eval", "(", "s", ")">>,
     <<"getattr", "(", "x", ")">>,
     UnclosedLine}
        \cup {ImportLine(mod) : mod \in DOMAIN ModuleSpelling}

\* self.dangerous_patterns, for the patterns of the form name\s*\(
DangerousPatterns ==
    <<[name |-> "exec", severity |-> "CRITICAL", category |-> "Code Injection"],
      [name |-> "eval", severity |-> "CRITICAL", category |-> "Code Injection"],
      [name |-> "compile", severity |-> "CRITICAL", category |-> "Code Injection"],
      [name |-> "__import__", severity |-> "CRITICAL", category |-> "Code Injection"],
      [name |-> "getattr", severity |-> "LOW", category |-> "Reflection/Dynamic Access"]>>

\* line.strip()
StripLine(line) == Strip(line)

\* stripped_line.startswith('#')
IsCommentLine(line) == StripLine(line) # <<>> /\ Head(StripLine(line)) = "#"

\* the token at position i is name and is followed by optional white space
\* and an opening parenthesis, within the first n tokens of the line
CallAt(line, i, name, n) ==
    /\ line[i] = name
    /\ \E j \in (i + 1)..n :
          /\ line[j] = "("
          /\ \A k \in (i + 1)..(j - 1) : line[k] = " "

\* re.search(pattern, line) for the pattern name\s*\(
PatternFound(line, name) == \E i \in 1..Len(line) : CallAt(line, i, name, Len(line))

Issue(sev, cat, n) == [severity |-> sev, category |-> cat, line_number |-> n]

\* the matches of one pattern in the lines from line number n on
RECURSIVE PatternIssues(_, _, _)
PatternIssues(pat, lines, n) ==
    IF n > Len(lines) THEN <<>>
    ELSE (IF ~IsCommentLine(lines[n]) /\ PatternFound(lines[n], pat.name)
          THEN <<Issue(pat.severity, pat.category, n)>> ELSE <<>>)
         \o PatternIssues(pat, lines, n + 1)

\* _check_dangerous_patterns: for each pattern, for each line
RECURSIVE CheckDangerousPatterns(_, _)
CheckDangerousPatterns(lines, p) ==
    IF p > Len(DangerousPatterns) THEN <<>>
    ELSE PatternIssues(DangerousPatterns[p], lines, 1)
         \o CheckDangerousPatterns(lines, p + 1)

\* the length of the code of a line: the tokens before the first "#"
CodeLen(line) ==
    IF \E i \in 1..Len(line) : line[i] = "#"
    THEN (CHOOSE i \in 1..Len(line) :
              line[i] = "#" /\ \A k \in 1..(i - 1) : line[k] # "#") - 1
    ELSE Len(line)

\* _check_dangerous_calls for the ast.Call nodes of one line
CheckDangerousCalls(line, n) ==
    IF \E i \in 1..CodeLen(line) :
          \E name \in {"exec", "eval", "compile", "__import__"} :
              CallAt(line, i, name, CodeLen(line))
    THEN <<Issue("CRITICAL", "Code Injection", n)>>
    ELSE <<>>

\* the ast.Call nodes of the lines from line number n on
RECURSIVE CallIssues(_, _)
CallIssues(lines, n) ==
    IF n > Len(lines) THEN <<>>
    ELSE CheckDangerousCalls(lines[n], n) \o CallIssues(lines, n + 1)

\* self.safe_imports
SafeImports ==
    {<<"o", "s">>,
     <<"s", "y", "s">>,
     <<"d", "a", "t", "e", "t", "i", "m", "e">>,
     <<"t", "i", "m", "e">>,
     <<"m", "a", "t", "h">>,
     <<"s", "t", "a", "t", "i", "s", "t", "i", "c", "s">>,
     <<"c", "o", "l", "l", "e", "c", "t", "i", "o", "n", "s">>,
     <<"t", "y", "p", "i", "n", "g">>,
     <<"d", "a", "t", "a", "c", "l", "a", "s", "s", "e", "s">>,
     <<"p", "a", "t", "h", "l", "i", "b">>,
     <<"j", "s", "o", "n">>,
     <<"c", "s", "v">>,
     <<"l", "o", "g", "g", "i", "n", "g">>,
     <<"a", "r", "g", "p", "a", "r", "s", "e">>,
     <<"w", "a", "r", "n", "i", "n", "g", "s">>,
     <<"q", "u", "e", "u", "e">>,
     <<"h", "e", "a", "p", "q">>,
     <<"b", "i", "s", "e", "c", "t">>,
     <<"a", "r", "r", "a", "y">>,
     <<"c", "o", "p", "y">>,
     <<"p", "i", "c", "k", "l", "e">>,
     <<"s", "h", "e", "l", "v", "e">>,
     <<"g", "z", "i", "p">>,
     <<"z", "i", "p", "f", "i", "l", "e">>,
     <<"n", "u", "m", "p", "y">>,
     <<"p", "a", "n", "d", "a", "s">>,
     <<"s", "c", "i", "p", "y">>,
     <<"s", "k", "l", "e", "a", "r", "n">>,
     <<"s", "t", "a", "t", "s", "m", "o", "d", "e", "l", "s">>,
     <<"y", "f", "i", "n", "a", "n", "c", "e">>,
     <<"c", "c", "x", "t">>,
     <<"a", "l", "p", "h", "a", "_", "v", "a", "n", "t", "a", "g", "e">>,
     <<"q", "u", "a", "n", "d", "l">>,
     <<"b", "l", "o", "o", "m", "b", "e", "r", "g">>,
     <<"i", "n", "v", "e", "s", "t", "p", "y">>,
     <<"f", "r", "e", "d", "a", "p", "i">>,
     <<"p", "a", "n", "d", "a", "s", "_", "d", "a", "t", "a", "r", "e", "a", "d", "e", "r">>,
     <<"t", "a", "l", "i", "b">>,
     <<"t", "a">>,
     <<"f", "i", "n", "t", "a">>,
     <<"t", "u", "l", "i", "p">>,
     <<"t", "u", "l", "i", "p", "y">>,
     <<"m", "a", "t", "p", "l", "o", "t", "l", "i", "b">>,
     <<"s", "e", "a", "b", "o", "r", "n">>,
     <<"p", "l", "o", "t", "l", "y">>,
     <<"b", "o", "k", "e", "h">>,
     <<"s", "t", "r", "a", "t", "e", "g", "y", "_", "i", "n", "t", "e", "r", "f", "a", "c", "e">>,
     <<"e", "x", "c", "h", "a", "n", "g", "e", "_", "i", "n", "t", "e", "r", "f", "a", "c", "e">>,
     <<"u", "n", "i", "v", "e", "r", "s", "a", "l", "_", "b", "o", "t">>,
     <<"b", "a", "s", "e", "6", "4">>,
     <<"h", "a", "s", "h", "l", "i", "b">>,
     <<"h", "m", "a", "c">>,
     <<"u", "u", "i", "d">>,
     <<"u", "n", "i", "t", "t", "e", "s", "t">>,
     <<"p", "y", "t", "e", "s", "t">>,
     <<"m", "o", "c", "k">>,
     <<"_", "_", "f", "u", "t", "u", "r", "e", "_", "_">>,
     <<"a", "b", "c">>,
     <<"e", "n", "u", "m">>,
     <<"f", "u", "n", "c", "t", "o", "o", "l", "s">>,
     <<"i", "t", "e", "r", "t", "o", "o", "l", "s">>,
     <<"o", "p", "e", "r", "a", "t", "o", "r">>,
     <<"r", "a", "n", "d", "o", "m">>,
     <<"s", "e", "c", "r", "e", "t", "s">>,
     <<"s", "t", "r", "i", "n", "g">>,
     <<"r", "e">>}

\* the modules common to contest submissions
ContestCommon ==
    {<<"y", "o", "u", "r", "_", "s", "t", "r", "a", "t", "e", "g", "y">>,
     <<"s", "t", "a", "r", "t", "u", "p">>,
     <<"b", "a", "c", "k", "t", "e", "s", "t", "_", "r", "u", "n", "n", "e", "r">>,
     <<"o", "p", "t", "i", "m", "i", "z", "e", "r">>}

\* the name parts that mark the import of a strategy module
StrategyKeywords ==
    {<<"s", "t", "r", "a", "t", "e", "g", "y">>,
     <<"c", "h", "a", "m", "p", "i", "o", "n">>,
     <<"w", "i", "n", "n", "e", "r">>,
     <<"u", "l", "t", "i", "m", "a", "t", "e">>,
     <<"f", "i", "n", "a", "l">>,
     <<"v", "i", "c", "t", "o", "r", "y">>,
     <<"h", "y", "b", "r", "i", "d">>,
     <<"a", "g", "g", "r", "e", "s", "s", "i", "v", "e">>,
     <<"r", "a", "p", "i", "d">>,
     <<"s", "m", "a", "r", "t">>,
     <<"b", "r", "e", "a", "k", "o", "u", "t">>,
     <<"m", "o", "m", "e", "n", "t", "u", "m">>}

\* mod.startswith(safe)
StartsWith(s, prefix) ==
    Len(prefix) <= Len(s) /\ SubSeq(s, 1, Len(prefix)) = prefix

\* any(mod.startswith(safe) for safe in self.safe_imports)
IsSafeImport(mod) == \E safe \in SafeImports : StartsWith(mod, safe)

IsImportLine(line) ==
    Len(line) = 3 /\ line[1] = "import" /\ line[3] \in DOMAIN ModuleSpelling

\* _check_imports_allowlist for the ast.Import node of one line
CheckImportsAllowlist(line, n) ==
    IF ~IsImportLine(line) THEN <<>>
    ELSE LET mod == ModuleSpelling[line[3]]
         IN  IF ~IsSafeImport(mod) /\ mod \notin ContestCommon
             THEN (IF \E kw \in StrategyKeywords : Contains(kw, Lower(mod))
                   THEN <<Issue("MEDIUM", "Strategy Import Collection", n)>>
                   ELSE <<Issue("LOW", "Unapproved Imports", n)>>)
             ELSE <<>>

\* the ast.Import nodes of the lines from line number n on
RECURSIVE ImportIssues(_, _)
ImportIssues(lines, n) ==
    IF n > Len(lines) THEN <<>>
    ELSE CheckImportsAllowlist(lines[n], n) \o ImportIssues(lines, n + 1)

\* the code of the line opens more parentheses than it closes
Unclosed(line) ==
    Cardinality({i \in 1..CodeLen(line) : line[i] = "("})
        > Cardinality({i \in 1..CodeLen(line) : line[i] = ")"})

\* ast.parse(content) raises SyntaxError
HasSyntaxError(lines) == \E n \in 1..Len(lines) : Unclosed(lines[n])

\* the line numbers the SyntaxError may carry: the parser names the line of
\* an unclosed parenthesis or a line after it, depending on what follows;
\* 0 stands for a file that parses
ParserLines(lines) ==
    IF HasSyntaxError(lines)
    THEN {n \in 1..Len(lines) : \E m \in 1..n : Unclosed(lines[m])}
    ELSE {0}

\* _analyze_ast: a file that does not parse gives one issue; otherwise
\* ast.walk meets the statements (the imports) before the calls inside them
AnalyzeAst(lines, lineno) ==
    IF HasSyntaxError(lines)
    THEN <<Issue("HIGH", "Syntax Error", lineno)>>
    ELSE ImportIssues(lines, 1) \o CallIssues(lines, 1)

\* variant of ScanPythonFile that skips the pattern matching of a file that
\* does not parse
ScanPythonFile_ParsedOnly(lines, lineno) ==
    LET pattern_issues == IF HasSyntaxError(lines) THEN <<>>
                          ELSE CheckDangerousPatterns(lines, 1)
        ast_issues     == AnalyzeAst(lines, lineno)
    IN  [lines          |-> lines,
         pattern_issues |-> pattern_issues,
         ast_issues     |-> ast_issues,
         all_issues     |-> pattern_issues \o ast_issues]

\* _scan_python_file: pattern matching, then AST analysis; the obfuscation
\* scan needs a string literal of 100 characters and finds none here
ScanPythonFile(lines, lineno) ==
    LET pattern_issues == CheckDangerousPatterns(lines, 1)
        ast_issues     == AnalyzeAst(lines, lineno)
    IN  [lines          |-> lines,
         pattern_issues |-> pattern_issues,
         ast_issues     |-> ast_issues,
         all_issues     |-> pattern_issues \o ast_issues]

\* all_issues.extend(file_issues) for the files from number f on; an issue
\* carries the file it was found in
RECURSIVE ScanLoop(_, _)
ScanLoop(reports, f) ==
    IF f > Len(reports) THEN <<>>
    ELSE [i \in 1..Len(reports[f].all_issues) |->
              [file |-> f] @@ reports[f].all_issues[i]]
         \o ScanLoop(reports, f + 1)

\* one line number of the parser for each file
RECURSIVE ParserChoices(_)
ParserChoices(files) ==
    IF files = <<>> THEN {<<>>}
    ELSE {<<n>> \o rest : n \in ParserLines(Head(files)), rest \in ParserChoices(Tail(files))}

\* python_files of the submission
PythonFiles == sf_files \o <<sf_lines>>

RECURSIVE TotalLines(_)
TotalLines(files) ==
    IF files = <<>> THEN 0 ELSE Len(Head(files)) + TotalLines(Tail(files))

SfIdle ==
    /\ sf_files = <<>>
    /\ sf_lines = <<>>
    /\ sf_result = NoResult

\* one more line is written to the file
AddLine ==
    /\ sf_result = NoResult
    /\ TotalLines(PythonFiles) < MaxLines
    /\ \E line \in SourceLines : sf_lines' = Append(sf_lines, line)
    /\ UNCHANGED <<sf_files, sf_result>>

\* the file is complete and a further Python file is begun
AddFile ==
    /\ sf_result = NoResult
    /\ sf_lines # <<>>
    /\ TotalLines(PythonFiles) < MaxLines
    /\ sf_files' = Append(sf_files, sf_lines)
    /\ sf_lines' = <<>>
    /\ UNCHANGED sf_result

\* scan_submission of a directory that holds these files
ScanSubmissionFiles ==
    /\ sf_result = NoResult
    /\ \E lineno \in ParserChoices(PythonFiles) :
          /\ LET reports == [f \in 1..Len(PythonFiles) |->
                                ScanPythonFile(PythonFiles[f], lineno[f])]
                 all_issues == ScanLoop(reports, 1)
                 severities == [i \in 1..Len(all_issues) |-> all_issues[i].severity]
             IN  sf_result' = {[passed |-> SecurityPassed(severities),
                                score  |-> SecurityScore(severities),
                                issues |-> all_issues,
                                files  |-> reports]}
    /\ UNCHANGED <<sf_files, sf_lines>>

----------------------------------------------------------------------------
(* Scorer harness: build an issue list, pick metrics, score it with one tool *)

ScIdle ==
    /\ sc_issues = <<>>
    /\ sc_metrics = NoMetrics
    /\ sc_result = NoResult

ScInit ==
    /\ sc_issues = <<>>
    /\ sc_metrics \in MetricsSet
    /\ sc_result = NoResult

\* one more issue of some severity is appended to the list
AddIssue ==
    /\ sc_result = NoResult
    /\ Len(sc_issues) < MaxIssues
    /\ \E sev \in Severities : sc_issues' = Append(sc_issues, sev)
    /\ UNCHANGED <<sc_metrics, sc_result>>

ScoreWith(stage) ==
    /\ sc_result = NoResult
    /\ sc_result' = {[stage |-> stage]
                     @@ CheckSubmission(stage, IdA, sc_issues,
                                        IF stage = "contest_rules" THEN sc_metrics
                                        ELSE NoMetrics)}
    /\ UNCHANGED <<sc_issues, sc_metrics>>

ScanSubmission == ScoreWith("security")
ComplianceCheckSubmission == ScoreWith("compliance")
IntegrityCheckSubmission == ScoreWith("data_integrity")
RulesCheckSubmission == ScoreWith("contest_rules")

----------------------------------------------------------------------------
(* The strategy template: MomentumReversionStrategy.on_trade, and the      *)
(* trading loop of Backtester.run.  Sizes, prices and cash are whole       *)
(* numbers of units; timestamps are counted from 1 and 0 stands for None.  *)

NoCall == [action |-> "none", size |-> 0, timestamp |-> 0]

\* the signals a strategy can return for a candle closing at price: an entry
\* with its stop below and its target above the price, an exit, or a hold
Signals(price) ==
    {[action |-> "buy", size |-> n, stop_loss |-> price - d, target_price |-> price + d] :
        n \in 0..MaxSize, d \in 1..MaxDistance}
    \cup {[action |-> "sell", size |-> n, stop_loss |-> 0, target_price |-> 0] :
        n \in 0..MaxSize}
    \cup {[action |-> "hold", size |-> 0, stop_loss |-> 0, target_price |-> 0]}

\* the while loop of the sell branch: close positions from the front
RECURSIVE ClosePositions(_, _)
ClosePositions(positions, remaining) ==
    IF positions = <<>> \/ remaining <= 0 THEN positions
    ELSE IF Head(positions).size <= remaining
         THEN ClosePositions(Tail(positions), remaining - Head(positions).size)
         ELSE <<[Head(positions) EXCEPT !.size = @ - remaining]>> \o Tail(positions)

OnTrade_NewestFirst(self, signal, execution_price, execution_size, timestamp) ==
    IF signal.action = "buy"
    THEN [positions |-> Append(self.positions,
                               [entry_price |-> execution_price,
                                size |-> execution_size,
                                stop_loss |-> signal.stop_loss,
                                target_price |-> signal.target_price,
                                timestamp |-> timestamp]),
          last_trade_time |-> timestamp]
    ELSE IF signal.action = "sell"
    THEN [positions |-> IF self.positions = <<>> THEN <<>>
                        ELSE SubSeq(self.positions, 1, Len(self.positions) - 1)
                             \o ClosePositions(<<self.positions[Len(self.positions)]>>,
                                               execution_size),
          last_trade_time |-> timestamp]
    ELSE self

\* on_trade: self is the strategy's [positions, last_trade_time]
OnTrade(self, signal, execution_price, execution_size, timestamp) ==
    IF signal.action = "buy"
    THEN [positions |-> Append(self.positions,
                               [entry_price |-> execution_price,
                                size |-> execution_size,
                                stop_loss |-> signal.stop_loss,
                                target_price |-> signal.target_price,
                                timestamp |-> timestamp]),
          last_trade_time |-> timestamp]
    ELSE IF signal.action = "sell"
    THEN [positions |-> ClosePositions(self.positions, execution_size),
          last_trade_time |-> timestamp]
    ELSE self

Strategy == [positions |-> st_positions, last_trade_time |-> st_last_trade_time]

BtIdle ==
    /\ st_positions = <<>>
    /\ st_last_trade_time = 0
    /\ st_call = NoCall
    /\ bt_cash = 0
    /\ bt_quantity = 0
    /\ bt_candle = 0

\* a trade reported to the strategy: one call of on_trade
OnTradeCall ==
    /\ st_call.timestamp < MaxTrades
    /\ \E execution_price \in 1..MaxPrice, execution_size \in 1..MaxSize :
         \E signal \in Signals(execution_price) :
            LET timestamp == st_call.timestamp + 1
                after == OnTrade(Strategy, signal, execution_price,
                                 execution_size, timestamp)
            IN /\ st_positions' = after.positions
               /\ st_last_trade_time' = after.last_trade_time
               /\ st_call' = [action |-> signal.action, size |-> execution_size,
                              timestamp |-> timestamp]
    /\ UNCHANGED <<bt_cash, bt_quantity, bt_candle>>

CanBuy_Always(cost, cash) == TRUE

\* the guard of the buy branch
CanBuy(cost, cash) == cost <= cash

\* the execution of a trade in run: the portfolio, then the strategy
Execute(signal, cash, quantity, close, size) ==
    LET after == OnTrade(Strategy, signal, close, size, bt_candle')
    IN /\ bt_cash' = cash
       /\ bt_quantity' = quantity
       /\ st_positions' = after.positions
       /\ st_last_trade_time' = after.last_trade_time
       /\ st_call' = [action |-> signal.action, size |-> size,
                      timestamp |-> bt_candle']

NoTrade == UNCHANGED <<bt_cash, bt_quantity, st_positions, st_last_trade_time, st_call>>

\* one pass of the while loop of run: a candle, the signal, the trade
ProcessCandle ==
    /\ bt_candle < MaxCandles
    /\ bt_candle' = bt_candle + 1
    /\ \E close \in 1..MaxPrice :
         \E signal \in Signals(close) :
            IF signal.action = "buy" /\ signal.size > 0
            THEN LET cost == signal.size * close
                 IN IF CanBuy(cost, bt_cash)
                    THEN Execute(signal, bt_cash - cost, bt_quantity + signal.size,
                                 close, signal.size)
                    ELSE NoTrade
            ELSE IF signal.action = "sell" /\ signal.size > 0
            THEN LET size == Min(signal.size, bt_quantity)
                 IN IF size > 0
                    THEN Execute(signal, bt_cash + size * close, bt_quantity - size,
                                 close, size)
                    ELSE NoTrade
            ELSE NoTrade

----------------------------------------------------------------------------
(* Specifications *)

\* one automated run of the pipeline (run_full_evaluation)
Init == PipeInit /\ ScIdle /\ RvIdle /\ SfIdle /\ BtIdle

Next ==
    \/ RunSecurityAudit /\ UNCHANGED <<scVars, rvVars, sfVars, btVars>>
    \/ RunComplianceCheck /\ UNCHANGED <<scVars, rvVars, sfVars, btVars>>
    \/ RunDataIntegrityCheck /\ UNCHANGED <<scVars, rvVars, sfVars, btVars>>
    \/ RunContestRulesVerification /\ UNCHANGED <<scVars, rvVars, sfVars, btVars>>
    \/ GenerateFinalRanking /\ UNCHANGED <<scVars, rvVars, sfVars, btVars>>

Spec == Init /\ [][Next]_vars

\* run_full_evaluation is one sequential procedure and every stage method
\* returns, its whole body being inside try / except.  Returns is the step
\* of Next that a position takes when its tool cannot be started (and the
\* ranking itself); it is possible at every position before the end, and
\* any step of that position, this one or another, leaves the position.
\* Weak fairness of Returns therefore says that the run does not stay at a
\* position where it can move on, and nothing about which step it takes.
Returns ==
    /\ \/ pc = "security" /\ SecurityAuditFailed("exception", "compliance")
       \/ pc = "compliance"
             /\ ComplianceCheckFailed("exception", "data_integrity", "data_integrity")
       \/ pc = "data_integrity" /\ DataIntegrityCheckFailed("exception", "contest_rules")
       \/ pc = "contest_rules" /\ ContestRulesVerificationFailed("exception", "ranking")
       \/ pc = "ranking" /\ FinalRanking
    /\ UNCHANGED answers
    /\ UNCHANGED <<scVars, rvVars, sfVars, btVars>>

\* the runs checked for termination start with at most MaxTermDirs
\* directories in base_path; every combination of tool outcomes occurs
TerminationInit == Init /\ Cardinality(dirs) <= MaxTermDirs

TerminationSpec == TerminationInit /\ [][Next]_vars /\ WF_vars(Returns)

\* main: one run of the pipeline, automated or interactive (--interactive)
InteractiveNext ==
    \/ AskSecurityAudit /\ UNCHANGED <<scVars, rvVars, sfVars, btVars>>
    \/ AskComplianceCheck /\ UNCHANGED <<scVars, rvVars, sfVars, btVars>>
    \/ AskDataIntegrityCheck /\ UNCHANGED <<scVars, rvVars, sfVars, btVars>>
    \/ AskContestRulesVerification /\ UNCHANGED <<scVars, rvVars, sfVars, btVars>>
    \/ AskFinalRanking /\ UNCHANGED <<scVars, rvVars, sfVars, btVars>>

MainInit ==
    /\ pc \in {"security", "ask_security"}
    /\ PipeFields
    /\ ScIdle
    /\ RvIdle
    /\ SfIdle
    /\ BtIdle

MainNext == Next \/ InteractiveNext

MainSpec == MainInit /\ [][MainNext]_vars

\* the scorers applied to every issue list and metrics within the bounds
ScoreInit ==
    /\ PipeInit
    /\ dirs = {}
    /\ ScInit
    /\ RvIdle
    /\ SfIdle
    /\ BtIdle

ScoreNext ==
    \/ AddIssue /\ UNCHANGED <<pipeVars, rvVars, sfVars, btVars>>
    \/ ScanSubmission /\ UNCHANGED <<pipeVars, rvVars, sfVars, btVars>>
    \/ ComplianceCheckSubmission /\ UNCHANGED <<pipeVars, rvVars, sfVars, btVars>>
    \/ IntegrityCheckSubmission /\ UNCHANGED <<pipeVars, rvVars, sfVars, btVars>>
    \/ RulesCheckSubmission /\ UNCHANGED <<pipeVars, rvVars, sfVars, btVars>>

ScoreSpec == ScoreInit /\ [][ScoreNext]_vars

\* the contest-rules verifier checking one submission directory
VerifyInit ==
    /\ PipeInit
    /\ dirs = {}
    /\ ScIdle
    /\ RvInit
    /\ SfIdle
    /\ BtIdle

VerifyNext ==
    \/ CheckFolderStructure /\ UNCHANGED <<pipeVars, scVars, sfVars, btVars>>
    \/ CheckBacktestReport /\ UNCHANGED <<pipeVars, scVars, sfVars, btVars>>
    \/ ExtractTable /\ UNCHANGED <<pipeVars, scVars, sfVars, btVars>>
    \/ ExtractPnl /\ UNCHANGED <<pipeVars, scVars, sfVars, btVars>>
    \/ ExtractDrawdown /\ UNCHANGED <<pipeVars, scVars, sfVars, btVars>>
    \/ ExtractTrades /\ UNCHANGED <<pipeVars, scVars, sfVars, btVars>>
    \/ ExtractSharpeRatio /\ UNCHANGED <<pipeVars, scVars, sfVars, btVars>>
    \/ ExtractWinRate /\ UNCHANGED <<pipeVars, scVars, sfVars, btVars>>
    \/ ReadCsvFile /\ UNCHANGED <<pipeVars, scVars, sfVars, btVars>>
    \/ ValidateMetrics /\ UNCHANGED <<pipeVars, scVars, sfVars, btVars>>
    \/ CheckContestCompliance /\ UNCHANGED <<pipeVars, scVars, sfVars, btVars>>
    \/ ValidateFinancialConstraints /\ UNCHANGED <<pipeVars, scVars, sfVars, btVars>>
    \/ ValidatePositionSizing /\ UNCHANGED <<pipeVars, scVars, sfVars, btVars>>
    \/ ValidateDataCompliance /\ UNCHANGED <<pipeVars, scVars, sfVars, btVars>>

VerifySpec == VerifyInit /\ [][VerifyNext]_vars

\* extract_metrics_from_text on the text of one report
ReportInit ==
    /\ PipeInit
    /\ dirs = {}
    /\ ScIdle
    /\ SfIdle
    /\ BtIdle
    /\ rv_pc = "text"
    /\ rv_entries = {}
    /\ rv_row \in RowTexts
    /\ rv_files = 0
    /\ rv_csvs = 0
    /\ rv_text = NoMetrics
    /\ rv_data = NoMetrics
    /\ rv_violations = <<>>
    /\ rv_result = NoResult

ReportNext == ReadReportText /\ UNCHANGED <<pipeVars, scVars, sfVars, btVars>>

ReportSpec == ReportInit /\ [][ReportNext]_vars

\* the security scanner applied to every Python file within the bounds
ScanInit ==
    /\ PipeInit
    /\ dirs = {}
    /\ ScIdle
    /\ RvIdle
    /\ SfIdle
    /\ BtIdle

ScanNext ==
    \/ AddLine /\ UNCHANGED <<pipeVars, scVars, rvVars, btVars>>
    \/ AddFile /\ UNCHANGED <<pipeVars, scVars, rvVars, btVars>>
    \/ ScanSubmissionFiles /\ UNCHANGED <<pipeVars, scVars, rvVars, btVars>>

ScanSpec == ScanInit /\ [][ScanNext]_vars

\* the strategy told of every sequence of trades within the bounds
StrategyInit ==
    /\ PipeInit
    /\ dirs = {}
    /\ ScIdle
    /\ RvIdle
    /\ SfIdle
    /\ BtIdle

StrategyNext == OnTradeCall /\ UNCHANGED <<pipeVars, scVars, rvVars, sfVars>>

StrategySpec == StrategyInit /\ [][StrategyNext]_vars

\* a backtest over every sequence of candles and signals within the bounds
BacktestInit ==
    /\ PipeInit
    /\ dirs = {}
    /\ ScIdle
    /\ RvIdle
    /\ SfIdle
    /\ st_positions = <<>>
    /\ st_last_trade_time = 0
    /\ st_call = NoCall
    /\ bt_cash \in 0..MaxCapital
    /\ bt_quantity = 0
    /\ bt_candle = 0

BacktestNext == ProcessCandle /\ UNCHANGED <<pipeVars, scVars, rvVars, sfVars>>

BacktestSpec == BacktestInit /\ [][BacktestNext]_vars

----------------------------------------------------------------------------
(* Properties *)

\* what the claims call the candidates, survivors and results of a stage
Ran(st) == outcome[st] # NotRun
Failed(st) == outcome[st] \in {"nonzero", "exception", "nofile"}
Candidates(st) == SeqToSet(handed[st])
SurvivorsOf(st) == SeqToSet(returned[st])
Recorded(st) == DOMAIN stage_results[st]
RankedIds == {final_results[i].submission_id : i \in 1..Len(final_results)}

\* C1 (as stated): for consecutive stages N, N+1, an id that is not in the
\* survivor set returned by stage N is never evaluated by stage N+1 and gets
\* no stage N+1 result.
C1_NonSurvivorNeverEvaluated ==
    \A k \in 1..3 :
        Ran(Stages[k + 1]) =>
            (evaluated[Stages[k + 1]] \cup Recorded(Stages[k + 1]))
                \subseteq SurvivorsOf(Stages[k])

\* C2: in each of the four stage tools a result with passed = TRUE has no
\* CRITICAL issue, whatever the score and the bonus points are.
C2_PassedImpliesNoCritical ==
    \A r \in sc_result : r.passed => CountSev(r.issues, "CRITICAL") = 0

\* C2 witness: the contest-rules tool scored a list with a CRITICAL violation
\* at or above the threshold of 70 thanks to bonus points, and did not pass it
C2_Witness ==
    \E r \in sc_result :
        /\ r.stage = "contest_rules"
        /\ CountSev(r.issues, "CRITICAL") > 0
        /\ RulesBonus(r.metrics) > 0
        /\ r.score >= 70
        /\ ~r.passed

\* C3: a final record is PASS if and only if the submission has a recorded
\* result with passed true in all four stages; a stage without a recorded
\* result counts as not passed.
C3_PassIffAllStagesPassed ==
    \A i \in 1..Len(final_results) :
        final_results[i].final_status = "PASS"
            <=> \A st \in StageSet :
                    /\ final_results[i].submission_id \in Recorded(st)
                    /\ stage_results[st][final_results[i].submission_id].passed

\* C3 witness: the ranking holds a PASS record and a FAIL record whose only
\* defect is a stage without a recorded result
C3_Witness ==
    /\ pc = "done"
    /\ \E i \in 1..Len(final_results) : final_results[i].final_status = "PASS"
    /\ \E i \in 1..Len(final_results) :
          /\ final_results[i].final_status = "FAIL"
          /\ \E st \in StageSet : final_results[i].submission_id \notin Recorded(st)
          /\ \A st \in StageSet :
                final_results[i].submission_id \in Recorded(st)
                    => stage_results[st][final_results[i].submission_id].passed

\* the default score a stage assumes when it is skipped or falls back
DefaultScore(st) ==
    CASE st = "security"       -> 90
      [] st = "compliance"     -> 85
      [] st = "data_integrity" -> 80
      [] st = "contest_rules"  -> 75

\* C4 (as stated): when the tool invocation of a stage fails, the stage
\* forwards every current survivor and records for each a result with passed
\* true and the default score, in each of the four stages.
C4_FailureAssumesPass ==
    \A st \in StageSet :
        Failed(st) =>
            /\ returned[st] = handed[st]
            /\ \A id \in Candidates(st) :
                  /\ id \in Recorded(st)
                  /\ stage_results[st][id].passed
                  /\ stage_results[st][id].score = DefaultScore(st)

\* C5 (as stated): every candidate handed to a stage has a recorded result of
\* that stage and is among the stage's survivors if and only if that result
\* has passed true.
C5_EveryCandidateRecorded ==
    \A st \in StageSet :
        Ran(st) =>
            \A id \in Candidates(st) :
                /\ id \in Recorded(st)
                /\ (id \in SurvivorsOf(st) <=> stage_results[st][id].passed)

\* the ids a stage was handed and did not return
Eliminated(st) == IF Ran(st) THEN Candidates(st) \ SurvivorsOf(st) ELSE {}

\* C6 (as stated): a submission eliminated at any stage never appears in the
\* final ranking.
C6_EliminatedNeverRanked ==
    \A st \in StageSet : Eliminated(st) \cap RankedIds = {}

\* C6 (amended): a submission eliminated at any stage never has final status
\* PASS in the final ranking, and stage 2 is handed exactly the ids that
\* stage 1 recorded as passed.
C6_EliminatedNeverPass ==
    /\ \A st \in StageSet :
          \A i \in 1..Len(final_results) :
              final_results[i].submission_id \in Eliminated(st)
                  => final_results[i].final_status = "FAIL"
    /\ Ran("compliance") =>
          Candidates("compliance") =
              {id \in Recorded("security") : stage_results["security"][id].passed}

\* C6 witness: stage 1 eliminated one of its candidates, stage 2 got the
\* others, and the ranking lists the eliminated id next to a PASS record
C6_Witness ==
    /\ pc = "done"
    /\ outcome["security"] = "ok"
    /\ Eliminated("security") # {}
    /\ Eliminated("security") \subseteq RankedIds
    /\ Cardinality(Candidates("compliance")) = Cardinality(Candidates("security")) - 1
    /\ \E i \in 1..Len(final_results) : final_results[i].final_status = "PASS"

\* C7: after generate_final_ranking, final_results holds exactly one record
\* for each id with a recorded result in at least one stage, and no other.
C7_OneRecordPerEvaluatedId ==
    pc = "done" =>
        /\ \A id \in UNION {Recorded(st) : st \in StageSet} :
              Cardinality({i \in 1..Len(final_results) :
                              final_results[i].submission_id = id}) = 1
        /\ RankedIds \subseteq UNION {Recorded(st) : st \in StageSet}

\* C7 witness: the ranking was built from at least two ids, one of them
\* recorded by a single stage only
C7_Witness ==
    /\ pc = "done"
    /\ Len(final_results) >= 2
    /\ \E id \in RankedIds : Cardinality({st \in StageSet : id \in Recorded(st)}) = 1
    /\ \E id \in RankedIds : Cardinality({st \in StageSet : id \in Recorded(st)}) = 4

\* C8 (as stated): the survivor set returned by each stage is a subset of the
\* survivor set passed into it, for every outcome of the stage tool.
C8_SurvivorsShrink ==
    \A st \in StageSet : Ran(st) => SurvivorsOf(st) \subseteq Candidates(st)

\* the score a stage contributes for an id: the recorded one, else 0
ScoreOf(st, id) == IF id \in Recorded(st) THEN stage_results[st][id].score ELSE 0

\* C9: every final record has overall_score = 0.30 security + 0.25 compliance
\* + 0.25 data integrity + 0.20 contest rules (in hundredths), the weights
\* sum to 1.0 and a stage without a recorded result contributes 0.
C9_WeightedOverallScore ==
    /\ W_security + W_compliance + W_data_integrity + W_contest_rules = 100
    /\ \A i \in 1..Len(final_results) :
          final_results[i].overall_score =
                30 * ScoreOf("security", final_results[i].submission_id)
              + 25 * ScoreOf("compliance", final_results[i].submission_id)
              + 25 * ScoreOf("data_integrity", final_results[i].submission_id)
              + 20 * ScoreOf("contest_rules", final_results[i].submission_id)

\* C9 witness: a record whose four stage scores are recorded and not all
\* equal, and a record with a stage that contributes 0 for lack of a result
C9_Witness ==
    /\ pc = "done"
    /\ \E i \in 1..Len(final_results) :
          /\ \A st \in StageSet : final_results[i].submission_id \in Recorded(st)
          /\ final_results[i].security_score # final_results[i].contest_rules_score
          /\ final_results[i].compliance_score # final_results[i].contest_rules_score
    /\ \E i \in 1..Len(final_results) :
          /\ final_results[i].overall_score > 0
          /\ \E st \in StageSet : final_results[i].submission_id \notin Recorded(st)

\* C10 (as stated): the final ranking is ordered by overall score descending
\* and records with equal overall score are ordered by submission id.
C10_RankingOrderedWithTieBreak ==
    \A i, j \in 1..Len(final_results) :
        i < j =>
            \/ final_results[i].overall_score > final_results[j].overall_score
            \/ /\ final_results[i].overall_score = final_results[j].overall_score
               /\ StrLess(final_results[i].submission_id, final_results[j].submission_id)

\* C11: the score of every stage scorer, the bonus points of the contest
\* rules scorer included, lies in 0..100 for every issue list and metrics.
C11_ScoreWithinRange ==
    \A r \in sc_result : r.score >= 0 /\ r.score <= 100

\* C11 witness: the contest-rules scorer capped a sum of remaining points and
\* bonus points above 100
C11_Witness ==
    \E r \in sc_result :
        /\ r.stage = "contest_rules"
        /\ RulesDeduct(r.issues, 100) + RulesBonus(r.metrics) > 100
        /\ r.score = 100

\* C14: the contest-rules stage fails a submission if and only if its score
\* is below 70, or it has a CRITICAL violation, or it has more than two HIGH
\* violations.
C14_RulesFailIff ==
    \A r \in sc_result :
        r.stage = "contest_rules" =>
            (~r.passed <=> \/ r.score < 70
                           \/ CountSev(r.issues, "CRITICAL") >= 1
                           \/ CountSev(r.issues, "HIGH") > 2)

\* C14 witness: three HIGH violations, no CRITICAL one, bonus points that
\* lift the score to 70 or more, and the submission failed
C14_Witness ==
    \E r \in sc_result :
        /\ r.stage = "contest_rules"
        /\ CountSev(r.issues, "HIGH") = 3
        /\ CountSev(r.issues, "CRITICAL") = 0
        /\ RulesDeduct(r.issues, 100) < 70
        /\ r.score >= 70
        /\ ~r.passed

\* C19: with the metrics fixed, one more issue of any severity never raises
\* the score of a stage scorer.
C19_ScoreMonotone ==
    \A r \in sc_result :
        \A sev \in Severities :
            ToolScore(r.stage, Append(r.issues, sev), r.metrics) <= r.score

\* C19 witness: a scored list with points left, for which one more issue
\* lowers the score
C19_Witness ==
    \E r \in sc_result :
        /\ Len(r.issues) >= 2
        /\ r.score > 0
        /\ \E sev \in Severities :
              ToolScore(r.stage, Append(r.issues, sev), r.metrics) < r.score

\* C12 (as stated): while the metrics of one submission are extracted, a key
\* populated by an earlier strategy (table, then text patterns, then CSV) or
\* by an earlier report file is never changed by a later strategy or file.
C12_PopulatedKeyNeverChanges ==
    [][/\ \A k \in DOMAIN rv_text \cap DOMAIN rv_text' : rv_text'[k] = rv_text[k]
       /\ \A k \in DOMAIN rv_data :
             k \in DOMAIN rv_data' /\ rv_data'[k] = rv_data[k]]_vars

\* the violations of a result that belong to a category
ViolationsOf(r, cat) == {i \in 1..Len(r.violations) : r.violations[i].category = cat}

\* C13: in the contest-rules stage an extracted max_drawdown above 50 gives
\* a CRITICAL disqualification violation and passed = FALSE, also when the
\* score with its bonus points is 70 or more.
C13_DrawdownDisqualifies ==
    \A r \in rv_result :
        ("max_drawdown" \in DOMAIN r.metrics /\ r.metrics["max_drawdown"] > 50) =>
            /\ \E i \in ViolationsOf(r, "DISQUALIFICATION - Drawdown Violation") :
                  r.violations[i].severity = "CRITICAL"
            /\ ~r.passed

\* C13 witness: a drawdown of 55, the drawdown violation as the only one, and
\* a score of 70 or more thanks to bonus points
C13_Witness ==
    \E r \in rv_result :
        /\ "max_drawdown" \in DOMAIN r.metrics
        /\ r.metrics["max_drawdown"] = 55
        /\ Len(r.violations) = 1
        /\ RulesBonus(r.metrics) > 0
        /\ r.score >= 70
        /\ ~r.passed

\* C17 (as stated): whatever path extracted it, a Sharpe ratio outside
\* [-5, 10] is never stored in the metrics.
C17_SharpeAlwaysInRange ==
    /\ "sharpe_ratio" \in DOMAIN rv_text =>
          (rv_text["sharpe_ratio"] >= 0 - 50 /\ rv_text["sharpe_ratio"] <= 100)
    /\ "sharpe_ratio" \in DOMAIN rv_data =>
          (rv_data["sharpe_ratio"] >= 0 - 50 /\ rv_data["sharpe_ratio"] <= 100)

\* C18 (as stated): with total_pnl present and total_return exactly 0, no
\* starting-capital violation of any severity is added, neither by
\* check_contest_compliance nor by validate_financial_constraints.
C18_ZeroReturnNoCapitalViolation ==
    \A r \in rv_result :
        (/\ "total_pnl" \in DOMAIN r.metrics
         /\ "total_return" \in DOMAIN r.metrics
         /\ r.metrics["total_return"] = 0) =>
            /\ ViolationsOf(r, "Starting Capital") = {}
            /\ ViolationsOf(r, "Starting Capital Violation") = {}

\* the lines of a scanned file that the scanner can flag: every line that is
\* not a comment line and not the plain assignment
FlaggedLines(lines) ==
    {n \in 1..Len(lines) : ~IsCommentLine(lines[n]) /\ lines[n] # <<"x", "=", "1">>}

\* C20 (as stated): a Python file whose only flagged content is the line
\* exec(user_input) outside a comment yields exactly one CRITICAL "Code
\* Injection" issue, and the submission gets the security score 60.
C20_ExecLineOneIssue ==
    \A r \in sf_result :
        (/\ Len(r.files) = 1
         /\ Cardinality(FlaggedLines(r.files[1].lines)) = 1
         /\ \A n \in FlaggedLines(r.files[1].lines) :
               r.files[1].lines[n] = <<"exec", "(", "user_input", ")">>) =>
            /\ Len(r.issues) = 1
            /\ r.issues[1].severity = "CRITICAL"
            /\ r.issues[1].category = "Code Injection"
            /\ r.score = 60

\* the stage before a stage, for the stages 2 to 4
PreviousStage(st) ==
    CASE st = "compliance"     -> "security"
      [] st = "data_integrity" -> "compliance"
      [] st = "contest_rules"  -> "data_integrity"

\* C15: in interactive mode a skipped stage leaves the survivor set as it
\* was (stage 1: every directory of base_path) and records every survivor as
\* passed with the default score of the stage (90/85/80/75); an answer that
\* is neither yes nor skip halts the run with no final record and no ranking.
C15_SkipAndDecline ==
    /\ \A st \in StageSet :
          answers[st] = "skip" =>
              /\ returned[st] = handed[st]
              /\ IF st = "security"
                 THEN SurvivorsOf(st) = dirs
                 ELSE returned[st] = returned[PreviousStage(st)]
              /\ \A id \in SurvivorsOf(st) :
                    /\ id \in Recorded(st)
                    /\ stage_results[st][id].passed
                    /\ stage_results[st][id].score = DefaultScore(st)
    /\ \A p \in Prompts :
          answers[p] = "declined" =>
              /\ pc = "halted"
              /\ final_results = <<>>
              /\ rankCalls = 0

\* C15 witness: stage 1 ran, stage 2 was skipped with two survivors, stage 3
\* was declined
C15_Witness ==
    /\ answers["security"] = "yes"
    /\ answers["compliance"] = "skip"
    /\ Len(returned["compliance"]) = 2
    /\ answers["data_integrity"] = "declined"
    /\ pc = "halted"

\* the number of stages that ran or were skipped
StagesRun == Cardinality({st \in StageSet : Ran(st)})

\* C16: in every run the stages go in the order security, compliance, data
\* integrity, contest rules, final ranking; a stage starts with the survivor
\* list the stage before it returned, and there is no final record before
\* all four stages ran, were skipped or fell back.
C16_StagesInOrder ==
    /\ \A k \in 1..3 :
          Ran(Stages[k + 1]) =>
              /\ Ran(Stages[k])
              /\ handed[Stages[k + 1]] = returned[Stages[k]]
    /\ (final_results # <<>> \/ rankCalls > 0 \/ pc = "done") => StagesRun = 4
    /\ pc \in {"security", "ask_security"} => StagesRun = 0
    /\ pc \in {"compliance", "ask_compliance"} => StagesRun = 1
    /\ pc \in {"data_integrity", "ask_data_integrity"} => StagesRun = 2
    /\ pc \in {"contest_rules", "ask_contest_rules"} => StagesRun = 3
    /\ pc \in {"ranking", "ask_ranking"} => StagesRun = 4

\* C16 witness: an interactive run with a skipped stage and a stage that fell
\* back reached the final ranking with two records
C16_Witness ==
    /\ pc = "done"
    /\ answers["ranking"] = "yes"
    /\ outcome["compliance"] = "skipped"
    /\ Failed("contest_rules")
    /\ Len(final_results) = 2

\* C26 (as stated): a stage 2, 3 or 4 that is handed an empty survivor list
\* evaluates no directory and records no result, and no id other than a
\* discovered submission id (a '#' directory of base_path) appears in the
\* stage results or in the final ranking.
C26_EmptyListEvaluatesNothing ==
    /\ \A k \in 2..4 :
          (Ran(Stages[k]) /\ handed[Stages[k]] = <<>>) =>
              (evaluated[Stages[k]] = {} /\ Recorded(Stages[k]) = {})
    /\ \A st \in StageSet : Recorded(st) \subseteq SubmissionDirs(dirs)
    /\ RankedIds \subseteq SubmissionDirs(dirs)

\* C27 (as stated): in automated mode, after the ranking, an id is in the
\* survivor list returned by stage 4 if and only if its final record has
\* final_status PASS, for every combination of stage-tool outcomes.
C27_SurvivorIffPass ==
    pc = "done" =>
        SurvivorsOf("contest_rules") =
            {final_results[i].submission_id :
                i \in {j \in 1..Len(final_results) : final_results[j].final_status = "PASS"}}

C21_NoStrategyFolderFails ==
    \A r \in rv_result :
        StrategyDir \notin rv_entries =>
            /\ \E i \in ViolationsOf(r, "Folder Structure") :
                  r.violations[i].severity = "CRITICAL"
            /\ ~r.passed

C21_Witness ==
    \E r \in rv_result :
        /\ rv_entries = {StrategyFile, ReportsDir}
        /\ Len(r.violations) = 1
        /\ r.score >= 70
        /\ ~r.passed

\* the figures a combined row written the usual way stands for
RowFigures(r, d, s, n) ==
    [total_return |-> NumeralTenths[r] \div 10,
     max_drawdown |-> Abs(NumeralTenths[d] \div 10),
     sharpe_ratio |-> NumeralTenths[s],
     total_trades |-> NumeralTenths[n] \div 10]

HoldsFigures(metrics, fig) ==
    \A k \in DOMAIN fig : k \in DOMAIN metrics /\ metrics[k] = fig[k]

\* C22 (as stated): for a report whose table has the row
\* '| Combined | r% | d% | s | n |', extract_metrics_from_text returns
\* total_return = r, max_drawdown = |d|, sharpe_ratio = s and
\* total_trades = n.
C22_TableFiguresReturned ==
    rv_pc = "text_done" =>
        \A r \in ReturnNumerals, d \in DrawdownNumerals,
           s \in SharpeNumerals, n \in TradeNumerals :
            rv_row = RowText(PercentCell(r), PercentCell(d), PlainCell(s), PlainCell(n))
                => HoldsFigures(rv_text, RowFigures(r, d, s, n))

\* the import issues of a file report at line n
ImportIssuesAt(rep, n) ==
    {i \in 1..Len(rep.ast_issues) :
        /\ rep.ast_issues[i].line_number = n
        /\ rep.ast_issues[i].category
              \in {"Unapproved Imports", "Strategy Import Collection"}}

\* C23 (as stated): in a file that parses, every import of a module whose
\* name is not in the allow-list and not a contest-common module gives an
\* import issue (LOW or MEDIUM) at its line; no module outside the
\* allow-list, such as requests or tarfile, is accepted without an issue.
C23_UnlistedImportReported ==
    \A r \in sf_result :
        \A f \in 1..Len(r.files) :
            \A n \in 1..Len(r.files[f].lines) :
                LET line == r.files[f].lines[n]
                IN  (/\ ~HasSyntaxError(r.files[f].lines)
                     /\ IsImportLine(line)
                     /\ ModuleSpelling[line[3]] \notin SafeImports
                     /\ ModuleSpelling[line[3]] \notin ContestCommon) =>
                        ImportIssuesAt(r.files[f], n) # {}

\* the (line, rule) pairs of a file: the line is not a comment line and the
\* rule matches it
MatchingPairs(lines) ==
    {pair \in (1..Len(lines)) \X (1..Len(DangerousPatterns)) :
        /\ ~IsCommentLine(lines[pair[1]])
        /\ PatternFound(lines[pair[1]], DangerousPatterns[pair[2]].name)}

\* C24 (as stated): the text-pattern scanner gives one issue for each pair
\* of a non-comment line and a rule that matches it, and its list is in the
\* order of the line numbers.
C24_PatternIssuesInLineOrder ==
    \A r \in sf_result :
        \A f \in 1..Len(r.files) :
            LET issues == r.files[f].pattern_issues
            IN  /\ Len(issues) = Cardinality(MatchingPairs(r.files[f].lines))
                /\ \A i, j \in 1..Len(issues) :
                      i < j => issues[i].line_number <= issues[j].line_number

\* the issues of the scan result that were found in file f
IssuesOfFile(r, f) == {i \in 1..Len(r.issues) : r.issues[i].file = f}

RECURSIVE OpenSize(_)
OpenSize(positions) ==
    IF positions = <<>> THEN 0
    ELSE Head(positions).size + OpenSize(Tail(positions))

\* a position without its size: what a partial close leaves untouched
Unsized(position) == [position EXCEPT !.size = 0]

\* C29: a sell of size s reported to on_trade closes the open positions
\* oldest first: the total open size goes down by min(s, total open size),
\* the list after the call is the list before without some positions at its
\* front, at most one position (the new front) is smaller than before, and no
\* position of size <= 0 is left; a buy appends exactly one position, of the
\* executed size, at the end of the list.
C29_SellClosesOldestFirst ==
    [][LET before == st_positions
           after == st_positions'
           s == st_call'.size
       IN /\ st_call'.action = "sell" =>
               /\ OpenSize(after) = OpenSize(before) - Min(s, OpenSize(before))
               /\ \E k \in 0..Len(before) :
                     /\ Len(after) = Len(before) - k
                     /\ \A i \in 1..Len(after) : Unsized(after[i]) = Unsized(before[i + k])
                     /\ \A i \in 2..Len(after) : after[i].size = before[i + k].size
                     /\ after # <<>> => after[1].size <= before[k + 1].size
               /\ \A i \in 1..Len(after) : after[i].size > 0
          /\ st_call'.action = "buy" =>
               /\ Len(after) = Len(before) + 1
               /\ SubSeq(after, 1, Len(before)) = before
               /\ after[Len(after)].size = s
               /\ after[Len(after)].timestamp = st_call'.timestamp
      ]_vars

\* C29 witness: after two buys a sell has closed the older position and left
\* the newer one, smaller than the largest trade size
C29_Witness ==
    /\ st_call.action = "sell"
    /\ Len(st_positions) = 1
    /\ st_positions[1].timestamp = 2
    /\ st_positions[1].size < MaxSize

\* C30: after any sequence of candles processed by run, the cash and the
\* quantity of the portfolio are both non-negative.
C30_CashAndQuantityNonNegative ==
    /\ bt_cash >= 0
    /\ bt_quantity >= 0

\* C30 witness: a buy has spent all the cash, and a later sell of more than
\* the quantity held has sold exactly the quantity held
C30_Witness ==
    /\ bt_candle >= 2
    /\ st_call.action = "sell"
    /\ st_call.timestamp = bt_candle
    /\ bt_quantity = 0
    /\ st_positions = <<>>
    /\ bt_cash > MaxCapital


====
